---- MODULE Spec2Model ----
(***************************************************************************)
(* A model of the company-db Apps Script programs:                         *)
(*   src/company-db/parse-company.js  the document-to-record pipeline      *)
(*   src/company-db/save-to-db.js     the sheet upsert                     *)
(*   src/company-db/main.js           the batch driver                     *)
(*                                                                         *)
(* parse-company.js holds two versions of the pipeline.  The first (lines  *)
(* 1-661) extracts labelled raw fields with regular expressions and hands  *)
(* each stage its own field; the second (lines 663-1245) hands every stage *)
(* the full document text.  Both are modelled; the deployed one is the     *)
(* value of the variable `variant`.                                        *)
(***************************************************************************)
EXTENDS Integers, Sequences, FiniteSets, TLC

(***************************************************************************)
(* JavaScript values.  A value is a pair <<tag, payload>>; the tag decides *)
(* the type of the payload, so values of different JavaScript types are    *)
(* always comparable.  A string is a sequence of tokens (see the text      *)
(* layer below), a number is an integer count of hundredths (15 is 0.15),  *)
(* an object is a function from its own property names to values.          *)
(***************************************************************************)
Null == <<"null", 0>>
Undefined == <<"undefined", 0>>
Num(n) == <<"number", n>>
NaN == <<"nan", 0>>
Infinity == <<"inf", 1>>
NegInfinity == <<"inf", -1>>
Str(s) == <<"string", s>>
Obj(f) == <<"object", f>>
EmptyString == Str(<<>>)

TypeOf(v) == v[1]
IsNullish(v) == TypeOf(v) \in {"null", "undefined"}
IsObject(v) == TypeOf(v) = "object"

\* ToBoolean: the values a condition or `||` treats as false.
Falsy(v) == \/ IsNullish(v)
            \/ v = EmptyString
            \/ v = Num(0)
            \/ TypeOf(v) = "nan"
Truthy(v) == ~Falsy(v)

\* a || b
OrElse(a, b) == IF Truthy(a) THEN a ELSE b

\* Object.keys(o), as a set
Keys(o) == DOMAIN o[2]

\* o[k] for a value that is not null or undefined: an own property of an
\* object, undefined for a missing property and for every property of a
\* primitive.  (o[k] on null or undefined throws a TypeError: callers test
\* IsNullish first.)
GetProp(o, k) == IF IsObject(o) /\ k \in Keys(o) THEN o[2][k] ELSE Undefined

(***************************************************************************)
(* Text.  A string is a sequence of tokens.  "NL" is a line break, "SP" a  *)
(* space; both are white space (\s), and "." matches every token but "NL". *)
(* A field label with its colon ("ACV:") is one token, every other token   *)
(* is a word.                                                              *)
(***************************************************************************)
IsSpace(tok) == tok \in {"NL", "SP"}

RECURSIVE TrimLeft(_)
TrimLeft(s) == IF s # <<>> /\ IsSpace(Head(s)) THEN TrimLeft(Tail(s)) ELSE s

RECURSIVE TrimRight(_)
TrimRight(s) == IF s # <<>> /\ IsSpace(s[Len(s)])
                THEN TrimRight(SubSeq(s, 1, Len(s) - 1))
                ELSE s

\* String.prototype.trim on the token sequence
Trim(s) == TrimRight(TrimLeft(s))

\* The guard every stage but the batch stage starts with:
\*   !text || text.trim() === ''
IsBlankText(text) == Falsy(text) \/ (TypeOf(text) = "string" /\ Trim(text[2]) = <<>>)

(***************************************************************************)
(* Script properties.  Each program reads its identifiers from the script  *)
(* properties when it is loaded; a property that was never set reads as    *)
(* null.  `config` is the set of properties that are set.                  *)
(***************************************************************************)
PropertyNames == {"OPENAI_API_KEY", "SPREADSHEET_ID", "MASTER_FOLDER_ID"}

(***************************************************************************)
(* The record schema: the keys of the object literal assembleCompleteRecord*)
(* returns, in the order it writes them (Object.keys keeps that order).    *)
(* "url" is a key of the full-text version only.                           *)
(***************************************************************************)
KeyOrder ==
  << "id", "company_name", "doc_url", "date_created",
     "arr_run_rate", "carr", "revenue_2024", "revenue_2023", "revenue_2022",
     "monthly_burn", "cash", "runway", "raising", "raised",
     "last_round_valuation",
     "acv", "acv_2", "customer_count", "customer_count_2", "logo_churn_annual",
     "cac", "payback_period", "ltv_to_cac", "gross_margin",
     "saas_recurring_percent", "nrr",
     "team_size", "year_founded", "location", "description", "url",
     "competition", "revenue_notes", "funding_notes", "good", "challenges",
     "needs_action" >>

\* Object.keys(o), in order
ObjectKeys(o) == SelectSeq(KeyOrder, LAMBDA k : k \in Keys(o))

(***************************************************************************)
(* The sheet "Companies".  A sheet is the sequence of its rows that hold   *)
(* content, a row the sequence of its cells; row 1 is the header row.  An  *)
(* empty cell reads as the empty string, and writing null empties a cell.  *)
(***************************************************************************)
IsEmptyRow(row) == \A i \in 1..Len(row) : row[i] = EmptyString

\* A grid keeps no empty rows below its last row with content.
RECURSIVE DropEmptyTail(_)
DropEmptyTail(grid) ==
  IF grid # <<>> /\ IsEmptyRow(grid[Len(grid)])
  THEN DropEmptyTail(SubSeq(grid, 1, Len(grid) - 1))
  ELSE grid

\* sheet.getLastRow(): the position of the last row that has content
getLastRow(grid) == Len(DropEmptyTail(grid))

\* The value a cell holds after setValues / appendRow wrote v to it.
CellOf(v) == IF IsNullish(v) THEN EmptyString ELSE v

\* The value getValues() reads at (r, c); a cell outside the content reads ''.
CellAt(grid, r, c) ==
  IF r \in 1..Len(grid) /\ c \in 1..Len(grid[r]) THEN grid[r][c] ELSE EmptyString

\* sheet.getRange(r, 1, 1, Len(row)).setValues([row])
SetRow(grid, r, row) ==
  LET cells == [i \in 1..Len(row) |-> CellOf(row[i])]
      padded == [i \in 1..(IF r > Len(grid) THEN r ELSE Len(grid)) |->
                   IF i = r THEN cells
                   ELSE IF i <= Len(grid) THEN grid[i] ELSE <<>>]
  IN DropEmptyTail(padded)

\* sheet.appendRow(row): below the last row that has content
appendRow(grid, row) == SetRow(grid, getLastRow(grid) + 1, row)

\* getHeaders(sheet): [] for a sheet without rows, else the first row
getHeaders(grid) == IF getLastRow(grid) = 0 THEN <<>> ELSE grid[1]

\* setHeaders(sheet, headers): getRange(1, 1, 1, headers.length) needs at
\* least one column and throws otherwise.
setHeadersThrows(headers) == Len(headers) = 0
setHeaders(grid, headers) == SetRow(grid, 1, [i \in 1..Len(headers) |-> Str(<<headers[i]>>)])

\* The property name a header cell stands for in companyRecord[header].
HeaderKey(cell) == IF TypeOf(cell) = "string" /\ Len(cell[2]) = 1 THEN cell[2][1] ELSE ""

\* Array.prototype.indexOf, 1-based here: 0 when v does not occur
RECURSIVE IndexOfFrom(_, _, _)
IndexOfFrom(seq, v, i) ==
  IF i > Len(seq) THEN 0
  ELSE IF seq[i] = v THEN i
  ELSE IndexOfFrom(seq, v, i + 1)
IndexOf(seq, v) == IndexOfFrom(seq, v, 1)

\* A faulty variant: the values of the record in the order of its own keys,
\* whatever the headers are.
NewRowKeyOrder(headers, companyRecord) ==
  [i \in 1..Len(ObjectKeys(companyRecord)) |-> companyRecord[2][ObjectKeys(companyRecord)[i]]]

\* headers.map(header => companyRecord[header] !== undefined ? companyRecord[header] : null)
NewRow(headers, companyRecord) ==
  [i \in 1..Len(headers) |->
     LET v == GetProp(companyRecord, HeaderKey(headers[i]))
     IN IF v # Undefined THEN v ELSE Null]

\* sheet.getRange(2, idColumnIndex, sheet.getLastRow(), 1).getValues().flat():
\* getLastRow() cells of the id column starting at row 2, so one cell below
\* the last row is read with them.
IdColumnValues(grid, idColumnIndex) ==
  [i \in 1..getLastRow(grid) |-> CellAt(grid, i + 1, idColumnIndex)]

\* A faulty variant: `+ 1` for `+ 2`, so that an id found in the first data
\* row counts as not found.
ExistingRowIndexOffByOne(grid, headers, companyRecord) ==
  LET idColumnIndex == IndexOf(headers, Str(<<"id">>))
      found == IndexOf(IdColumnValues(grid, idColumnIndex), GetProp(companyRecord, "id"))
  IN IF found = 0 THEN 0 ELSE found

\* The row the record's id is found in (headers.indexOf('id') + 1 > 0 is
\* assumed); a value of 1 or less means "not found".
ExistingRowIndex(grid, headers, companyRecord) ==
  LET idColumnIndex == IndexOf(headers, Str(<<"id">>))
      found == IndexOf(IdColumnValues(grid, idColumnIndex), GetProp(companyRecord, "id"))
  IN IF found = 0 THEN 1 ELSE found + 1

(***************************************************************************)
(* saveCompanyRecord(companyRecord) on the sheet `grid` with the script    *)
(* properties `cfg`: the sheet it leaves, whether it threw, and the branch *)
(* it took.                                                                *)
(*   - SPREADSHEET_ID unset: throws before touching the sheet.             *)
(*   - no header row: the record's keys are written as headers, and then   *)
(*     `headers = recordHeaders` assigns to a const, a TypeError, which    *)
(*     the catch logs and rethrows; the record itself is not written.      *)
(*   - otherwise update the row holding the id, or append.                 *)
(***************************************************************************)
saveCompanyRecord(grid, cfg, companyRecord) ==
  IF "SPREADSHEET_ID" \notin cfg
  THEN [sheet |-> grid, threw |-> TRUE, branch |-> "no_spreadsheet_id"]
  ELSE
    LET headers == getHeaders(grid) IN
    IF Len(headers) = 0
    THEN LET recordHeaders == ObjectKeys(companyRecord) IN
         IF setHeadersThrows(recordHeaders)
         THEN [sheet |-> grid, threw |-> TRUE, branch |-> "set_headers"]
         ELSE [sheet |-> setHeaders(grid, recordHeaders), threw |-> TRUE,
               branch |-> "assign_const"]
    ELSE
      LET newRow == NewRow(headers, companyRecord) IN
      IF IndexOf(headers, Str(<<"id">>)) > 0
      THEN LET existingRowIndex == ExistingRowIndex(grid, headers, companyRecord) IN
           IF existingRowIndex > 1
           THEN [sheet |-> SetRow(grid, existingRowIndex, newRow), threw |-> FALSE,
                 branch |-> "update"]
           ELSE [sheet |-> appendRow(grid, newRow), threw |-> FALSE,
                 branch |-> "append"]
      ELSE [sheet |-> appendRow(grid, newRow), threw |-> FALSE,
            branch |-> "append_no_id"]

(***************************************************************************)
(* The documents of the Drive folder.  DocumentApp.openById(docId)         *)
(* .getBody().getText() returns the text of a document, and throws for a   *)
(* document that cannot be opened.                                         *)
(***************************************************************************)
FullNote ==
  << "Company Name", "SP", "Acme", "NL",
     "ACV", "SP", "250k", "NL",
     "# of Customers", "SP", "300", "NL",
     "Logo Churn Annual", "SP", "2%", "SP", "monthly", "NL",
     "Monthly Burn", "SP", "low", "NL",
     "Raised", "SP", "5M", "NL",
     "Other Funding Notes", "SP", "10%", "SP", "equity", "NL" >>

\* Labels whose values were left blank: a label is followed directly by the
\* end of its line.
BlankLabelsNote ==
  << "Company Name", "SP", "NL",
     "ACV", "NL",
     "# of Customers", "SP", "NL",
     "Monthly Burn", "SP", "low", "NL",
     "Logo Churn Annual", "NL" >>

DocIds == {"doc-full", "doc-copy", "doc-labels", "doc-blank", "doc-empty", "doc-gone"}

DocumentAvailable(docId) == docId # "doc-gone"

DocumentText(docId) ==
  CASE docId = "doc-full" -> Str(FullNote)
    [] docId = "doc-copy" -> Str(FullNote)
    [] docId = "doc-labels" -> Str(BlankLabelsNote)
    [] docId = "doc-blank" -> Str(<<"NL", "SP", "NL">>)
    [] OTHER -> EmptyString

(***************************************************************************)
(* extractRawFieldsFromDoc (field version).  Every field has the pattern   *)
(*   /<label>:\s*(.+?)(?:\n|$)/i                                           *)
(* and text.match takes the leftmost match.  After the label, \s* takes    *)
(* all the white space that follows, line breaks included; (.+?) then      *)
(* needs at least one token that is not a line break and runs up to the    *)
(* next line break or the end of the text.  When only white space follows  *)
(* the label, \s* gives back spaces for (.+?) to match, or nothing         *)
(* matches; the trimmed value is '' in both cases.                         *)
(***************************************************************************)
FieldLabels ==
  { "Company Name", "URL", "Description", "Location", "Year founded",
    "Team size", "ARR Run Rate", "2024 rev", "2023 rev", "2022 rev",
    "Revenue Notes", "% SaaS Recurring", "Gross Margin", "# of Customers",
    "Customer Notes", "Competition", "ACV", "Logo Churn Annual",
    "Net Revenue Retention", "Blended CAC", "Payback Period", "Monthly Burn",
    "Cash", "Runway", "Raising", "Raised", "Active round / fundraise Notes",
    "Other Funding Notes", "Good", "Challenges", "Needs Action" }

\* The first position from i on that holds a token other than white space,
\* Len(text) + 1 when there is none.
RECURSIVE SkipSpace(_, _)
SkipSpace(text, i) ==
  IF i <= Len(text) /\ IsSpace(text[i]) THEN SkipSpace(text, i + 1) ELSE i

\* The first position from i on that holds a line break, Len(text) + 1 when
\* there is none.
RECURSIVE LineEnd(_, _)
LineEnd(text, i) ==
  IF i <= Len(text) /\ text[i] # "NL" THEN LineEnd(text, i + 1) ELSE i

\* The positions of the label in the text.
LabelPositions(text, label) == {i \in 1..Len(text) : text[i] = label}

\* match[1].trim() for the leftmost match, '' when the pattern does not match.
\* Only a label with a token other than white space somewhere after it
\* gives a value that survives the trim.
MatchField(text, label) ==
  LET hits == {i \in LabelPositions(text, label) : SkipSpace(text, i + 1) <= Len(text)}
  IN IF hits = {} THEN <<>>
     ELSE LET i == CHOOSE h \in hits : \A g \in hits : h <= g
              j == SkipSpace(text, i + 1)
          IN Trim(SubSeq(text, j, LineEnd(text, j) - 1))

\* The result of extractRawFieldsFromDoc for a document that can be opened:
\* an entry for every label.
extractRawFieldsFromDoc(docId) ==
  Obj([label \in FieldLabels |-> Str(MatchField(DocumentText(docId)[2], label))])

(***************************************************************************)
(* The classifier.  A response of the OpenAI endpoint, as far as           *)
(* callOpenAIStructured tells its cases apart:                             *)
(*   "fetch_error"  UrlFetchApp.fetch throws                               *)
(*   "http_error"   the response code is not 200                           *)
(*   "bad_envelope" the response body is not the expected JSON             *)
(*   "no_message"   the output holds no message with content               *)
(*   "bad_text"     the message text is not JSON                           *)
(*   "ok"           the message text is JSON; payload is its value         *)
(* callOpenAIStructured throws in every case but the last and returns the  *)
(* parsed payload as it is: it does not compare the payload to the schema. *)
(***************************************************************************)
FailureKinds == {"fetch_error", "http_error", "bad_envelope", "no_message", "bad_text"}

Failure(kind) == [kind |-> kind, payload |-> Undefined]
Answer(payload) == [kind |-> "ok", payload |-> payload]

\* A faulty variant: the catch block returns an empty object instead of
\* rethrowing (the pattern of getCompanyDetailsFromDomain in the zeroclick
\* scripts).  FailFast must not survive it.
callOpenAIStructuredSwallow(response) ==
  IF response.kind # "ok"
  THEN [threw |-> FALSE, value |-> Obj(<<>>)]
  ELSE [threw |-> FALSE, value |-> response.payload]

callOpenAIStructured(response) ==
  IF response.kind # "ok"
  THEN [threw |-> TRUE, value |-> Undefined]
  ELSE [threw |-> FALSE, value |-> response.payload]

(***************************************************************************)
(* The stages.  Each takes the text it works on and the response the       *)
(* classifier gives if it is called, and returns whether it threw, whether *)
(* it called the classifier, and its result.  The two versions of a stage  *)
(* differ in their prompt only (see the prompts below).                    *)
(***************************************************************************)
Returned(called, value) == [threw |-> FALSE, called |-> called, value |-> value]
Threw(called) == [threw |-> TRUE, called |-> called, value |-> Undefined]

\* return callOpenAIStructured(prompt, schema, name)
ReturnCall(response) ==
  LET r == callOpenAIStructured(response)
  IN IF r.threw THEN Threw(TRUE) ELSE Returned(TRUE, r.value)

\* const result = callOpenAIStructured(...); return { key: result[key] }
\* (result[key] throws a TypeError when result is null)
ReturnField(response, key) ==
  LET r == callOpenAIStructured(response)
  IN IF r.threw \/ IsNullish(r.value) THEN Threw(TRUE)
     ELSE Returned(TRUE, Obj((key :> GetProp(r.value, key))))

parseSimpleFieldsBatch(source, response) == ReturnCall(response)

\* A faulty variant: the guard is `!acvRawText` alone, without the trim.
\* ShortCircuit must not survive it.
analyzeACVComplexityNoTrim(acvRawText, response) ==
  IF Falsy(acvRawText)
  THEN Returned(FALSE, Obj([acv |-> Null, acv_2 |-> Null]))
  ELSE ReturnCall(response)

analyzeACVComplexity(acvRawText, response) ==
  IF IsBlankText(acvRawText)
  THEN Returned(FALSE, Obj([acv |-> Null, acv_2 |-> Null]))
  ELSE ReturnCall(response)

analyzeCustomerComplexity(customerRawText, response) ==
  IF IsBlankText(customerRawText)
  THEN Returned(FALSE, Obj([customer_count |-> Null, customer_count_2 |-> Null]))
  ELSE ReturnCall(response)

convertChurnToAnnual(churnRawText, response) ==
  IF IsBlankText(churnRawText)
  THEN Returned(FALSE, Obj([logo_churn_annual |-> Null]))
  ELSE ReturnField(response, "logo_churn_annual")

normalizeMonthlyBurn(burnRawText, response) ==
  IF IsBlankText(burnRawText)
  THEN Returned(FALSE, Obj([monthly_burn |-> Null]))
  ELSE ReturnField(response, "monthly_burn")

\* A faulty variant: the guard is `!fundingNotesText` alone, so the single
\* space that joins two empty notes counts as text.
extractLastRoundValuationNoTrim(fundingNotesText, response) ==
  IF Falsy(fundingNotesText)
  THEN Returned(FALSE, Obj([last_round_valuation |-> Null]))
  ELSE ReturnField(response, "last_round_valuation")

extractLastRoundValuation(fundingNotesText, response) ==
  IF IsBlankText(fundingNotesText)
  THEN Returned(FALSE, Obj([last_round_valuation |-> Null]))
  ELSE ReturnField(response, "last_round_valuation")

(***************************************************************************)
(* assembleCompleteRecord.  Utilities.getUuid() is the uuid-th identifier  *)
(* the runtime hands out and new Date() reads the clock `now`.  Reading a  *)
(* property of a stage output that is null or undefined throws a           *)
(* TypeError; anything else gives the property's value, or undefined.      *)
(***************************************************************************)
Uuid(n) == Str(<<"uuid", ToString(n)>>)
IsoString(now) == Str(<<"date", ToString(now)>>)
DocUrl(docId) == Str(<<"https://docs.google.com/document/d/", docId>>)

\* A faulty variant: only null is refused, as by a guard `x === null`; an
\* argument that was never passed (undefined) slips through.
PropertyReadThrowsNullOnly(objects) == \E o \in objects : o = Null

\* Some property read `o.key` throws: o is null or undefined.
PropertyReadThrows(objects) == \E o \in objects : IsNullish(o)

\* A faulty variant of the field version: the document URL is built from
\* the generated identifier instead of docId.
assembleCompleteRecordUrlFromUuid(docId, rawFields, simpleFields, acvData, customerData, churnData, burnData, valuationData, uuid, now) ==
  IF PropertyReadThrows({rawFields, simpleFields, acvData, customerData, churnData,
                         burnData, valuationData})
  THEN [threw |-> TRUE, value |-> Undefined]
  ELSE [threw |-> FALSE, value |-> Obj(
    [ id |-> Uuid(uuid),
      company_name |-> OrElse(GetProp(rawFields, "Company Name"), Null),
      doc_url |-> Str(<<"https://docs.google.com/document/d/", ToString(uuid)>>),
      date_created |-> IsoString(now),
      arr_run_rate |-> GetProp(simpleFields, "arr_run_rate"),
      carr |-> GetProp(simpleFields, "carr"),
      revenue_2024 |-> GetProp(simpleFields, "revenue_2024"),
      revenue_2023 |-> GetProp(simpleFields, "revenue_2023"),
      revenue_2022 |-> GetProp(simpleFields, "revenue_2022"),
      monthly_burn |-> GetProp(burnData, "monthly_burn"),
      cash |-> GetProp(simpleFields, "cash"),
      runway |-> GetProp(simpleFields, "runway"),
      raising |-> GetProp(simpleFields, "raising"),
      raised |-> GetProp(simpleFields, "raised"),
      last_round_valuation |-> GetProp(valuationData, "last_round_valuation"),
      acv |-> GetProp(acvData, "acv"),
      acv_2 |-> GetProp(acvData, "acv_2"),
      customer_count |-> GetProp(customerData, "customer_count"),
      customer_count_2 |-> GetProp(customerData, "customer_count_2"),
      logo_churn_annual |-> GetProp(churnData, "logo_churn_annual"),
      cac |-> GetProp(simpleFields, "cac"),
      payback_period |-> GetProp(simpleFields, "payback_period"),
      ltv_to_cac |-> GetProp(simpleFields, "ltv_to_cac"),
      gross_margin |-> GetProp(simpleFields, "gross_margin"),
      saas_recurring_percent |-> GetProp(simpleFields, "saas_recurring_percent"),
      nrr |-> GetProp(simpleFields, "nrr"),
      team_size |-> GetProp(simpleFields, "team_size"),
      year_founded |-> GetProp(simpleFields, "year_founded"),
      location |-> GetProp(simpleFields, "location"),
      description |-> GetProp(simpleFields, "description"),
      competition |-> GetProp(simpleFields, "competition"),
      revenue_notes |-> GetProp(simpleFields, "revenue_notes"),
      funding_notes |-> GetProp(simpleFields, "funding_notes"),
      good |-> GetProp(simpleFields, "good"),
      challenges |-> GetProp(simpleFields, "challenges"),
      needs_action |-> GetProp(simpleFields, "needs_action") ])]

\* Field version (lines 535-585): company_name comes from the raw fields.
assembleCompleteRecord(docId, rawFields, simpleFields, acvData, customerData, churnData, burnData, valuationData, uuid, now) ==
  IF PropertyReadThrows({rawFields, simpleFields, acvData, customerData, churnData,
                         burnData, valuationData})
  THEN [threw |-> TRUE, value |-> Undefined]
  ELSE [threw |-> FALSE, value |-> Obj(
    [ id |-> Uuid(uuid),
      company_name |-> OrElse(GetProp(rawFields, "Company Name"), Null),
      doc_url |-> DocUrl(docId),
      date_created |-> IsoString(now),
      arr_run_rate |-> GetProp(simpleFields, "arr_run_rate"),
      carr |-> GetProp(simpleFields, "carr"),
      revenue_2024 |-> GetProp(simpleFields, "revenue_2024"),
      revenue_2023 |-> GetProp(simpleFields, "revenue_2023"),
      revenue_2022 |-> GetProp(simpleFields, "revenue_2022"),
      monthly_burn |-> GetProp(burnData, "monthly_burn"),
      cash |-> GetProp(simpleFields, "cash"),
      runway |-> GetProp(simpleFields, "runway"),
      raising |-> GetProp(simpleFields, "raising"),
      raised |-> GetProp(simpleFields, "raised"),
      last_round_valuation |-> GetProp(valuationData, "last_round_valuation"),
      acv |-> GetProp(acvData, "acv"),
      acv_2 |-> GetProp(acvData, "acv_2"),
      customer_count |-> GetProp(customerData, "customer_count"),
      customer_count_2 |-> GetProp(customerData, "customer_count_2"),
      logo_churn_annual |-> GetProp(churnData, "logo_churn_annual"),
      cac |-> GetProp(simpleFields, "cac"),
      payback_period |-> GetProp(simpleFields, "payback_period"),
      ltv_to_cac |-> GetProp(simpleFields, "ltv_to_cac"),
      gross_margin |-> GetProp(simpleFields, "gross_margin"),
      saas_recurring_percent |-> GetProp(simpleFields, "saas_recurring_percent"),
      nrr |-> GetProp(simpleFields, "nrr"),
      team_size |-> GetProp(simpleFields, "team_size"),
      year_founded |-> GetProp(simpleFields, "year_founded"),
      location |-> GetProp(simpleFields, "location"),
      description |-> GetProp(simpleFields, "description"),
      competition |-> GetProp(simpleFields, "competition"),
      revenue_notes |-> GetProp(simpleFields, "revenue_notes"),
      funding_notes |-> GetProp(simpleFields, "funding_notes"),
      good |-> GetProp(simpleFields, "good"),
      challenges |-> GetProp(simpleFields, "challenges"),
      needs_action |-> GetProp(simpleFields, "needs_action") ])]

\* Full-text version (lines 1119-1170): company_name and url come from the
\* batch stage, and there is no rawFields parameter.
assembleCompleteRecordFullText(docId, simpleFields, acvData, customerData, churnData, burnData, valuationData, uuid, now) ==
  IF PropertyReadThrows({simpleFields, acvData, customerData, churnData, burnData,
                         valuationData})
  THEN [threw |-> TRUE, value |-> Undefined]
  ELSE [threw |-> FALSE, value |-> Obj(
    [ id |-> Uuid(uuid),
      company_name |-> GetProp(simpleFields, "company_name"),
      doc_url |-> DocUrl(docId),
      date_created |-> IsoString(now),
      arr_run_rate |-> GetProp(simpleFields, "arr_run_rate"),
      carr |-> GetProp(simpleFields, "carr"),
      revenue_2024 |-> GetProp(simpleFields, "revenue_2024"),
      revenue_2023 |-> GetProp(simpleFields, "revenue_2023"),
      revenue_2022 |-> GetProp(simpleFields, "revenue_2022"),
      monthly_burn |-> GetProp(burnData, "monthly_burn"),
      cash |-> GetProp(simpleFields, "cash"),
      runway |-> GetProp(simpleFields, "runway"),
      raising |-> GetProp(simpleFields, "raising"),
      raised |-> GetProp(simpleFields, "raised"),
      last_round_valuation |-> GetProp(valuationData, "last_round_valuation"),
      acv |-> GetProp(acvData, "acv"),
      acv_2 |-> GetProp(acvData, "acv_2"),
      customer_count |-> GetProp(customerData, "customer_count"),
      customer_count_2 |-> GetProp(customerData, "customer_count_2"),
      logo_churn_annual |-> GetProp(churnData, "logo_churn_annual"),
      cac |-> GetProp(simpleFields, "cac"),
      payback_period |-> GetProp(simpleFields, "payback_period"),
      ltv_to_cac |-> GetProp(simpleFields, "ltv_to_cac"),
      gross_margin |-> GetProp(simpleFields, "gross_margin"),
      saas_recurring_percent |-> GetProp(simpleFields, "saas_recurring_percent"),
      nrr |-> GetProp(simpleFields, "nrr"),
      team_size |-> GetProp(simpleFields, "team_size"),
      year_founded |-> GetProp(simpleFields, "year_founded"),
      location |-> GetProp(simpleFields, "location"),
      description |-> GetProp(simpleFields, "description"),
      url |-> GetProp(simpleFields, "url"),
      competition |-> GetProp(simpleFields, "competition"),
      revenue_notes |-> GetProp(simpleFields, "revenue_notes"),
      funding_notes |-> GetProp(simpleFields, "funding_notes"),
      good |-> GetProp(simpleFields, "good"),
      challenges |-> GetProp(simpleFields, "challenges"),
      needs_action |-> GetProp(simpleFields, "needs_action") ])]

(***************************************************************************)
(* The closed JSON schema each stage sends with its prompt: every property *)
(* is required and additionalProperties is false.  A schema is a function  *)
(* from property names to the set of types allowed.                        *)
(***************************************************************************)
NumberKeys ==
  { "arr_run_rate", "carr", "revenue_2024", "revenue_2023", "revenue_2022",
    "cash", "runway", "raising", "raised", "cac", "payback_period",
    "ltv_to_cac", "gross_margin", "saas_recurring_percent", "nrr" }
IntegerKeys == {"team_size", "year_founded"}
StringKeys ==
  { "location", "description", "competition", "revenue_notes",
    "funding_notes", "good", "challenges", "needs_action" }
FullTextOnlyKeys == {"company_name", "url"}

SimpleKeys(v) ==
  NumberKeys \cup IntegerKeys \cup StringKeys
    \cup (IF v = "fulltext" THEN FullTextOnlyKeys ELSE {})

StageNames ==
  << "simple_fields_batch", "acv_complexity_analysis",
     "customer_complexity_analysis", "churn_temporal_conversion",
     "monthly_burn_normalization", "valuation_extraction" >>

Schema(v, name) ==
  CASE name = "simple_fields_batch" ->
         [k \in SimpleKeys(v) |->
            IF k \in NumberKeys THEN {"number", "null"}
            ELSE IF k \in IntegerKeys THEN {"integer", "null"}
            ELSE {"string", "null"}]
    [] name = "acv_complexity_analysis" ->
         [k \in {"acv", "acv_2"} |-> {"number", "null"}]
    [] name = "customer_complexity_analysis" ->
         [k \in {"customer_count", "customer_count_2"} |-> {"integer", "null"}]
    [] name = "churn_temporal_conversion" ->
         [k \in {"logo_churn_annual"} |-> {"number", "null"}]
    [] name = "monthly_burn_normalization" ->
         [k \in {"monthly_burn"} |-> {"number", "null"}]
    [] OTHER ->
         [k \in {"last_round_valuation"} |-> {"number", "null"}]

\* JSON Schema types; a number counts hundredths, so an integer is a
\* multiple of 100.
HasType(val, t) ==
  CASE t = "null" -> val = Null
    [] t = "number" -> TypeOf(val) = "number"
    [] t = "integer" -> TypeOf(val) = "number" /\ val[2] % 100 = 0
    [] OTHER -> TypeOf(val) = t

\* The payload has exactly the declared properties, each of an allowed type.
Conforms(payload, schema) ==
  /\ IsObject(payload)
  /\ Keys(payload) = DOMAIN schema
  /\ \A k \in DOMAIN schema : \E t \in schema[k] : HasType(payload[2][k], t)

(***************************************************************************)
(* The payloads the classifier answers with in this model.                 *)
(***************************************************************************)
SimpleFull(v) ==
  Obj([k \in SimpleKeys(v) |->
         IF k = "company_name" THEN Str(<<"Acme">>)
         ELSE IF k \in NumberKeys THEN Num(12050)
         ELSE IF k \in IntegerKeys THEN Num(2500)
         ELSE Str(<<"text">>)])
SimpleAllNull(v) == Obj([k \in SimpleKeys(v) |-> Null])
\* declared property "cash" missing
SimpleMissingKey(v) == Obj([k \in SimpleKeys(v) \ {"cash"} |-> SimpleFull(v)[2][k]])

Payloads(v, name) ==
  CASE name = "simple_fields_batch" ->
         {SimpleFull(v), SimpleAllNull(v), SimpleMissingKey(v), Null}
    [] name = "acv_complexity_analysis" ->
         { Obj([acv |-> Num(25000000), acv_2 |-> Null]),
           Obj([acv |-> Num(25000000), acv_2 |-> Num(80000)]),
           Obj([acv |-> Null, acv_2 |-> Num(80000)]),
           \* an undeclared property
           Obj([acv |-> Num(25000000), acv_2 |-> Null, segment |-> Str(<<"SMB">>)]) }
    [] name = "customer_complexity_analysis" ->
         { Obj([customer_count |-> Num(300), customer_count_2 |-> Null]),
           Obj([customer_count |-> Num(300), customer_count_2 |-> Num(30000)]),
           Obj([customer_count |-> Null, customer_count_2 |-> Num(30000)]),
           \* a string where an integer is declared
           Obj([customer_count |-> Str(<<"NA">>), customer_count_2 |-> Null]) }
    [] name = "churn_temporal_conversion" ->
         \* for "2% monthly": 0.22 is the compounded rate, 0.24 is 12 * 0.02
         { Obj([logo_churn_annual |-> Num(22)]), Obj([logo_churn_annual |-> Num(24)]),
           Obj([logo_churn_annual |-> Null]) }
    [] name = "monthly_burn_normalization" ->
         {Obj([monthly_burn |-> Num(0)]), Obj([monthly_burn |-> Null])}
    [] OTHER ->
         {Obj([last_round_valuation |-> Num(500000000)]), Obj([last_round_valuation |-> Null])}

Responses(v, name) ==
  {Failure(kind) : kind \in FailureKinds} \cup {Answer(p) : p \in Payloads(v, name)}

\* processTodayCalendarEvents is not running.
NoCalendar ==
  [pc |-> "off", events |-> <<>>, answers |-> <<>>, next |-> 1,
   introCallSummaries |-> <<>>, returned |-> <<>>]

(***************************************************************************)
(* State.                                                                  *)
(*   variant      the version of parse-company.js that is deployed         *)
(*   config       the script properties that are set                       *)
(*   pc           the position of the running parseCompanyFromDoc          *)
(*   run          its locals: the document, the stage outputs so far, the  *)
(*                statements it executed, the classifier calls it made     *)
(*                (schema name, kind of response, whether the payload      *)
(*                conformed to the schema), whether it reached             *)
(*                assembleCompleteRecord, and what it returned             *)
(*   prev         the outcome of the run before this one                   *)
(*   runCount     the number of runs started                               *)
(*   memo         the answers a deterministic classifier has given,        *)
(*                by (schema name, prompt)                                 *)
(*   memoOn       whether the classifier is deterministic                  *)
(*   uuidCounter  the number of identifiers Utilities.getUuid() handed out *)
(*   clock        the time new Date() reads                                *)
(*   sheet        the rows of the sheet "Companies"                        *)
(*   lastSave     what the last saveCompanyRecord call did                 *)
(*   batch        the locals of processAllCompaniesInMasterFolder          *)
(*   dbase        the database write utility (src/unnamed/part_001): the   *)
(*                position of the running call, the object it was handed,  *)
(*                what it returned, and the rows written to the database   *)
(*   calendar     the locals of processTodayCalendarEvents                 *)
(***************************************************************************)
VARIABLES variant, config, pc, run, prev, runCount, memo, memoOn,
          uuidCounter, clock, sheet, lastSave, batch, dbase, calendar

vars == <<variant, config, pc, run, prev, runCount, memo, memoOn,
          uuidCounter, clock, sheet, lastSave, batch, dbase, calendar>>

\* What parseCompanyFromDoc cannot reach: the state of its callers.
callerVars == <<variant, config, prev, runCount, memoOn, sheet, lastSave, batch, dbase,
                calendar>>

MaxRuns == 2

NotProvided == Str(<<"Not provided">>)

FreshRun(docId) ==
  [ docId |-> docId, source |-> Undefined,
    simpleFields |-> Undefined, acvData |-> Undefined, customerData |-> Undefined,
    churnData |-> Undefined, burnData |-> Undefined, valuationData |-> Undefined,
    steps |-> <<>>, calls |-> <<>>, assembled |-> FALSE, result |-> Undefined ]

NoRun == [docId |-> "", outcome |-> "none", result |-> Undefined]
NoSave == [branch |-> "none", threw |-> FALSE, record |-> Undefined, before |-> <<>>]
NoDb ==
  [ pc |-> "off", call |-> "none", given |-> Undefined, received |-> Undefined,
    copy |-> Undefined, returned |-> Undefined, threw |-> FALSE, invoked |-> <<>>,
    attempts |-> <<>>, rows |-> <<>>, todo |-> <<>> ]
NoBatch ==
  [ pc |-> "off", listing |-> <<>>, subfolders |-> <<>>, files |-> <<>>,
    processedCount |-> 0, errorCount |-> 0, visited |-> <<>>, skipped |-> 0,
    runs |-> 0 ]

\* rawFields[label] || ''   (field version)
Raw(label) == OrElse(GetProp(run.source, label), EmptyString)

\* a + ' ' + b
Joined(a, b) == Str(a[2] \o <<"SP">> \o b[2])

\* A faulty variant: the customer stage is handed its text only while the
\* ACV stage has not run, so it reads state written by another stage.
StageTextChained(name) ==
  IF name = "customer_complexity_analysis" /\ run.acvData # Undefined THEN EmptyString
  ELSE IF variant = "fulltext" THEN run.source
  ELSE CASE name = "simple_fields_batch" -> run.source
         [] name = "acv_complexity_analysis" -> Raw("ACV")
         [] name = "customer_complexity_analysis" -> Raw("# of Customers")
         [] name = "churn_temporal_conversion" -> Raw("Logo Churn Annual")
         [] name = "monthly_burn_normalization" -> Raw("Monthly Burn")
         [] OTHER -> Joined(Raw("Active round / fundraise Notes"), Raw("Other Funding Notes"))

\* The text each stage is handed: its own raw field in the field version
\* (lines 40-62), the whole document in the full-text version (lines 698-709).
StageText(name) ==
  IF variant = "fulltext" THEN run.source
  ELSE CASE name = "simple_fields_batch" -> run.source
         [] name = "acv_complexity_analysis" -> Raw("ACV")
         [] name = "customer_complexity_analysis" -> Raw("# of Customers")
         [] name = "churn_temporal_conversion" -> Raw("Logo Churn Annual")
         [] name = "monthly_burn_normalization" -> Raw("Monthly Burn")
         [] OTHER -> Joined(Raw("Active round / fundraise Notes"), Raw("Other Funding Notes"))

\* What a stage interpolates into its prompt template, after the schema
\* name: the (prompt, schema) input of the classifier.  In the field
\* version the segmentation and valuation stages add context fields, each
\* as `context.x || 'Not provided'`.
StagePrompt(name) ==
  IF variant = "fulltext" THEN <<name, run.source>>
  ELSE CASE name = "acv_complexity_analysis" ->
              << name, StageText(name),
                 OrElse(Raw("Revenue Notes"), NotProvided),
                 OrElse(Raw("ARR Run Rate"), NotProvided),
                 OrElse(Raw("# of Customers"), NotProvided) >>
         [] name = "customer_complexity_analysis" ->
              << name, StageText(name),
                 OrElse(Raw("Customer Notes"), NotProvided),
                 OrElse(Raw("ACV"), NotProvided),
                 OrElse(Raw("Revenue Notes"), NotProvided) >>
         [] name = "valuation_extraction" ->
              << name, StageText(name),
                 OrElse(Raw("Raised"), NotProvided),
                 OrElse(Raw("Raising"), NotProvided) >>
         [] OTHER -> <<name, StageText(name)>>

\* The responses followed through a batch: a failure and a conforming answer
\* for the first two stages, with and without a company name, and a
\* conforming answer for the later ones.
BatchResponses(v, name) ==
  CASE name = "simple_fields_batch" ->
         {Failure("http_error"), Answer(SimpleFull(v)), Answer(SimpleAllNull(v))}
    [] name = "acv_complexity_analysis" ->
         {Failure("fetch_error"), Answer(Obj([acv |-> Num(25000000), acv_2 |-> Null]))}
    [] OTHER ->
         {Answer(CHOOSE p \in Payloads(v, name) : Conforms(p, Schema(v, name)))}

\* A payload that conforms to the schema of stage 2 and whose values pass
\* every check of the database write utility.
DbSimple(v) ==
  Obj([k \in SimpleKeys(v) |->
         IF k = "company_name" THEN Str(<<"Acme">>)
         ELSE IF k \in {"gross_margin", "saas_recurring_percent", "nrr"} THEN Num(45)
         ELSE IF k = "year_founded" THEN Num(201500)
         ELSE IF k = "team_size" THEN Num(1200)
         ELSE IF k \in NumberKeys THEN Num(12050)
         ELSE Str(<<"text">>)])

DbSimpleWith(v, k, value) == Obj([DbSimple(v)[2] EXCEPT ![k] = value])

\* The responses followed through parseAndSaveCompany: the sound payload,
\* and payloads with a fractional or a textual head count, an overflowing
\* numeral (JSON.parse reads 1e999 as Infinity), a net revenue retention of
\* 120, a secondary segment without its primary, a fractional customer
\* count.
DbResponses(v, name) ==
  CASE name = "simple_fields_batch" ->
         { Failure("http_error"), Answer(DbSimple(v)),
           Answer(DbSimpleWith(v, "team_size", Num(1250))),
           Answer(DbSimpleWith(v, "team_size", Str(<<"12">>))),
           Answer(DbSimpleWith(v, "arr_run_rate", Infinity)),
           Answer(DbSimpleWith(v, "nrr", Num(12000))) }
    [] name = "acv_complexity_analysis" ->
         { Answer(Obj([acv |-> Num(25000000), acv_2 |-> Num(80000)])),
           Answer(Obj([acv |-> Null, acv_2 |-> Num(80000)])) }
    [] name = "customer_complexity_analysis" ->
         { Answer(Obj([customer_count |-> Num(300), customer_count_2 |-> Null])),
           Answer(Obj([customer_count |-> Num(30050), customer_count_2 |-> Null])) }
    [] OTHER ->
         {Answer(CHOOSE p \in Payloads(v, name) : Conforms(p, Schema(v, name)))}

\* The responses the classifier can give to a stage of the deployed version.
AnyResponse(name) ==
  IF dbase.pc # "off" THEN DbResponses(variant, name)
  ELSE IF batch.pc = "off" THEN Responses(variant, name)
  ELSE BatchResponses(variant, name)

\* The responses the classifier may give to a prompt: any, or the one it
\* gave to the same prompt before when it is deterministic.
Classify(name, R) ==
  IF memoOn /\ StagePrompt(name) \in DOMAIN memo
  THEN {memo[StagePrompt(name)]}
  ELSE R

CallEntry(name, response) ==
  << name, response.kind,
     response.kind = "ok" /\ Conforms(response.payload, Schema(variant, name)) >>

\* A faulty variant: a stage whose classifier call failed calls once more
\* before it gives up.
AdvanceRetry(name, field, out, response, next) ==
  /\ run' = [run EXCEPT ![field] = out.value,
                        !.steps = Append(@, pc),
                        !.calls = IF out.called /\ out.threw
                                  THEN @ \o <<CallEntry(name, response), CallEntry(name, response)>>
                                  ELSE IF out.called
                                  THEN Append(@, CallEntry(name, response))
                                  ELSE @]
  /\ pc' = IF out.threw THEN "thrown" ELSE next
  /\ memo' = IF out.called /\ memoOn
             THEN (StagePrompt(name) :> response) @@ memo
             ELSE memo
  /\ UNCHANGED <<uuidCounter, clock, calendar>>
  /\ UNCHANGED callerVars

\* What a stage leaves behind: its result in the local `field`, the call in
\* the call log, and the thrown error ending the run (parseCompanyFromDoc
\* catches it only to log and rethrow it).
Advance(name, field, out, response, next) ==
  /\ run' = [run EXCEPT ![field] = out.value,
                        !.steps = Append(@, pc),
                        !.calls = IF out.called
                                  THEN Append(@, CallEntry(name, response))
                                  ELSE @]
  /\ pc' = IF out.threw THEN "thrown" ELSE next
  /\ memo' = IF out.called /\ memoOn
             THEN (StagePrompt(name) :> response) @@ memo
             ELSE memo
  /\ UNCHANGED <<uuidCounter, clock, calendar>>
  /\ UNCHANGED callerVars

(***************************************************************************)
(* parseCompanyFromDoc, one action per statement.                          *)
(***************************************************************************)
\* A faulty variant: a document that cannot be opened is read as an empty
\* text, and the run goes on.
StageExtractSwallow ==
  /\ pc = "extract"
  /\ run' = [run EXCEPT !.steps = Append(@, pc),
                        !.source =
                          IF ~DocumentAvailable(run.docId)
                          THEN IF variant = "fulltext" THEN EmptyString
                               ELSE Obj([label \in FieldLabels |-> EmptyString])
                          ELSE IF variant = "fulltext" THEN DocumentText(run.docId)
                          ELSE extractRawFieldsFromDoc(run.docId)]
  /\ pc' = "simple"
  /\ UNCHANGED <<memo, uuidCounter, clock, calendar>>
  /\ UNCHANGED callerVars

\* Stage 1: extractRawFieldsFromDoc(docId), or the document text.
StageExtract ==
  /\ pc = "extract"
  /\ IF DocumentAvailable(run.docId)
     THEN /\ run' = [run EXCEPT !.steps = Append(@, pc),
                                 !.source =
                                   IF variant = "fulltext" THEN DocumentText(run.docId)
                                   ELSE extractRawFieldsFromDoc(run.docId)]
          /\ pc' = "simple"
     ELSE /\ pc' = "thrown"
          /\ run' = [run EXCEPT !.steps = Append(@, pc)]
  /\ UNCHANGED <<memo, uuidCounter, clock, calendar>>
  /\ UNCHANGED callerVars

\* Stage 2
StageSimple ==
  /\ pc = "simple"
  /\ \E response \in Classify("simple_fields_batch", AnyResponse("simple_fields_batch")) :
       Advance("simple_fields_batch", "simpleFields",
               parseSimpleFieldsBatch(StageText("simple_fields_batch"), response),
               response, "acv")

\* Stage 3
StageACV ==
  /\ pc = "acv"
  /\ \E response \in Classify("acv_complexity_analysis", AnyResponse("acv_complexity_analysis")) :
       Advance("acv_complexity_analysis", "acvData",
               analyzeACVComplexity(StageText("acv_complexity_analysis"), response),
               response, "customer")

StageCustomer ==
  /\ pc = "customer"
  /\ \E response \in Classify("customer_complexity_analysis", AnyResponse("customer_complexity_analysis")) :
       Advance("customer_complexity_analysis", "customerData",
               analyzeCustomerComplexity(StageText("customer_complexity_analysis"), response),
               response, "churn")

StageChurn ==
  /\ pc = "churn"
  /\ \E response \in Classify("churn_temporal_conversion", AnyResponse("churn_temporal_conversion")) :
       Advance("churn_temporal_conversion", "churnData",
               convertChurnToAnnual(StageText("churn_temporal_conversion"), response),
               response, "burn")

\* Stage 4
StageBurn ==
  /\ pc = "burn"
  /\ \E response \in Classify("monthly_burn_normalization", AnyResponse("monthly_burn_normalization")) :
       Advance("monthly_burn_normalization", "burnData",
               normalizeMonthlyBurn(StageText("monthly_burn_normalization"), response),
               response, "valuation")

StageValuation ==
  /\ pc = "valuation"
  /\ \E response \in Classify("valuation_extraction", AnyResponse("valuation_extraction")) :
       Advance("valuation_extraction", "valuationData",
               extractLastRoundValuation(StageText("valuation_extraction"), response),
               response, "assemble")

\* A faulty variant: the identifier handed out is not fresh; every record
\* gets the one the counter stands at.
StageAssembleSameUuid ==
  /\ pc = "assemble"
  /\ LET out == IF variant = "fulltext"
                THEN assembleCompleteRecordFullText(
                       run.docId, run.simpleFields, run.acvData, run.customerData,
                       run.churnData, run.burnData, run.valuationData,
                       1, clock)
                ELSE assembleCompleteRecord(
                       run.docId, run.source, run.simpleFields, run.acvData,
                       run.customerData, run.churnData, run.burnData,
                       run.valuationData, 1, clock)
     IN /\ run' = [run EXCEPT !.steps = Append(@, pc), !.assembled = TRUE,
                              !.result = out.value]
        /\ pc' = IF out.threw THEN "thrown" ELSE "returned"
  /\ uuidCounter' = uuidCounter + 1
  /\ clock' = clock + 1
  /\ memo' = memo
  /\ UNCHANGED callerVars

\* Stage 5: assembleCompleteRecord, then `Successfully parsed company:
\* ${completeRecord.company_name}` and the return.
StageAssemble ==
  /\ pc = "assemble"
  /\ LET out == IF variant = "fulltext"
                THEN assembleCompleteRecordFullText(
                       run.docId, run.simpleFields, run.acvData, run.customerData,
                       run.churnData, run.burnData, run.valuationData,
                       uuidCounter + 1, clock)
                ELSE assembleCompleteRecord(
                       run.docId, run.source, run.simpleFields, run.acvData,
                       run.customerData, run.churnData, run.burnData,
                       run.valuationData, uuidCounter + 1, clock)
     IN /\ run' = [run EXCEPT !.steps = Append(@, pc), !.assembled = TRUE,
                              !.result = out.value]
        /\ pc' = IF out.threw THEN "thrown" ELSE "returned"
  /\ uuidCounter' = uuidCounter + 1
  /\ clock' = clock + 1
  /\ memo' = memo
  /\ UNCHANGED callerVars

(***************************************************************************)
(* The pipeline on its own: parseCompanyFromDoc is called on a document,   *)
(* and then once more on a document with the same text, against a          *)
(* classifier that answers the same prompt the same way.                   *)
(***************************************************************************)
SameText(d, e) ==
  \/ d = e
  \/ DocumentAvailable(d) /\ DocumentAvailable(e) /\ DocumentText(d) = DocumentText(e)

CallParse ==
  /\ pc \in {"idle", "returned", "thrown"}
  /\ runCount < MaxRuns
  /\ \E d \in DocIds :
       /\ pc # "idle" => SameText(d, run.docId)
       /\ run' = FreshRun(d)
  /\ prev' = IF pc = "idle" THEN NoRun
             ELSE [docId |-> run.docId, outcome |-> pc, result |-> run.result]
  /\ pc' = "extract"
  /\ runCount' = runCount + 1
  /\ UNCHANGED <<memo, uuidCounter, clock, calendar>>
  /\ UNCHANGED <<variant, config, memoOn, sheet, lastSave, batch, dbase, calendar>>

InitPipe ==
  /\ variant \in {"fields", "fulltext"}
  /\ config = {"SPREADSHEET_ID", "MASTER_FOLDER_ID"}
  /\ pc = "idle"
  /\ run = FreshRun("")
  /\ prev = NoRun
  /\ runCount = 0
  /\ memo = <<>>
  /\ memoOn = TRUE
  /\ uuidCounter = 0
  /\ clock = 0
  /\ sheet = <<>>
  /\ lastSave = NoSave
  /\ calendar = NoCalendar
  /\ batch = NoBatch
  /\ dbase = NoDb

NextPipe ==
  \/ CallParse
  \/ StageExtract
  \/ StageSimple
  \/ StageACV
  \/ StageCustomer
  \/ StageChurn
  \/ StageBurn
  \/ StageValuation
  \/ StageAssemble

SpecPipe == InitPipe /\ [][NextPipe]_vars

(***************************************************************************)
(* Properties of the pipeline (SpecPipe).                                  *)
(***************************************************************************)
Range(seq) == {seq[i] : i \in DOMAIN seq}
Last(seq) == seq[Len(seq)]

\* The statement at position p of parseCompanyFromDoc has been executed.
Acted(p) == p \in Range(run.steps)
\* The classifier was invoked for the schema `name` in this run.
Invoked(name) == \E c \in Range(run.calls) : c[1] = name
\* The run threw in the statement at position p.
ThrewAt(p) == pc = "thrown" /\ run.steps # <<>> /\ Last(run.steps) = p

\* Some classifier call of this run failed.
FailedCall == \E c \in Range(run.calls) : c[2] \in FailureKinds

\* C1 (fail-fast, no partial record): once the classifier call of any stage
\* has failed, the run has ended by throwing, assembleCompleteRecord was not
\* invoked and no record is returned.
C1_FailFast ==
  FailedCall => /\ pc = "thrown"
                /\ ~run.assembled
                /\ run.result = Undefined

\* The case of C1: five stages answered, the call of the last stage failed.
C1_Witness ==
  /\ Len(run.calls) = 6
  /\ run.calls[6][2] \in FailureKinds
  /\ \A i \in 1..5 : run.calls[i][2] = "ok"
  /\ pc = "thrown"

\* Every classifier answer of this run conformed to the schema it was
\* asked with.
AllAnswersConform == \A c \in Range(run.calls) : c[3]

NonNull(val) == ~IsNullish(val)

\* C2 (segment invariant, as claimed): in every record parseCompanyFromDoc
\* returns from schema-conforming classifier answers, acv_2 is non-null only
\* if acv is, and customer_count_2 only if customer_count is.
C2_SecondaryImpliesPrimary ==
  (pc = "returned" /\ AllAnswersConform) =>
    /\ NonNull(GetProp(run.result, "acv_2")) => NonNull(GetProp(run.result, "acv"))
    /\ NonNull(GetProp(run.result, "customer_count_2")) =>
         NonNull(GetProp(run.result, "customer_count"))

\* The two segmentation stages: position, schema name, local, empty result.
Segmentations ==
  { <<"acv", "acv_complexity_analysis", "acvData",
      Obj([acv |-> Null, acv_2 |-> Null])>>,
    <<"customer", "customer_complexity_analysis", "customerData",
      Obj([customer_count |-> Null, customer_count_2 |-> Null])>> }

\* C3 (segmentation short-circuit): a segmentation stage that was handed an
\* empty or white-space-only text returned both fields null, did not invoke
\* the classifier, and did not fail.
C3_ShortCircuit ==
  \A sg \in Segmentations :
    (Acted(sg[1]) /\ IsBlankText(StageText(sg[2]))) =>
      /\ run[sg[3]] = sg[4]
      /\ ~Invoked(sg[2])
      /\ ~ThrewAt(sg[1])

\* The case of C3: both segmentation stages ran on a text that is not empty
\* but holds white space only.
C3_Witness ==
  /\ Acted("acv") /\ Acted("customer")
  /\ \A sg \in Segmentations :
       /\ StageText(sg[2]) # EmptyString
       /\ IsBlankText(StageText(sg[2]))

\* The locals holding the output of the stage with schema `name`.
StageLocal(name) ==
  CASE name = "simple_fields_batch" -> run.simpleFields
    [] name = "acv_complexity_analysis" -> run.acvData
    [] name = "customer_complexity_analysis" -> run.customerData
    [] name = "churn_temporal_conversion" -> run.churnData
    [] name = "monthly_burn_normalization" -> run.burnData
    [] OTHER -> run.valuationData

\* C7 (schema violations are failures, as claimed): when the classifier
\* answered a stage with a payload that violates the stage's closed schema,
\* the run has thrown and assembled no record; and no stage result lacks a
\* property its schema requires.
C7_SchemaViolationFails ==
  /\ \A c \in Range(run.calls) :
       (c[2] = "ok" /\ ~c[3]) =>
         (pc = "thrown" /\ ~run.assembled /\ run.result = Undefined)
  /\ \A c \in Range(run.calls) :
       (c[2] = "ok" /\ pc # "thrown") =>
         DOMAIN Schema(variant, c[1]) \subseteq Keys(StageLocal(c[1]))

\* The fields two runs on the same input may differ in.
RunSpecific(d, e) == {"id", "date_created"} \cup (IF d = e THEN {} ELSE {"doc_url"})

AsmDocIds == {"doc-full", "doc-empty"}

AsmOutputs(v, name) ==
  Payloads(v, name) \cup {Null, Undefined}
    \cup ( CASE name = "simple_fields_batch" -> {Num(500)}
             [] name = "acv_complexity_analysis" ->
                  {Obj([acv |-> Null, acv_2 |-> Null])}
             [] name = "customer_complexity_analysis" ->
                  {Obj([customer_count |-> Null, customer_count_2 |-> Null])}
             [] OTHER -> {} )

AsmSources(v, docId) ==
  IF v = "fulltext" THEN {DocumentText(docId)}
  ELSE {extractRawFieldsFromDoc(docId), Null, Undefined}

InitAsm ==
  /\ variant \in {"fields", "fulltext"}
  /\ config = {"SPREADSHEET_ID", "MASTER_FOLDER_ID"}
  /\ pc = "assemble"
  /\ \E docId \in AsmDocIds :
     \E source \in AsmSources(variant, docId) :
     \E simpleFields \in AsmOutputs(variant, "simple_fields_batch") :
     \E acvData \in AsmOutputs(variant, "acv_complexity_analysis") :
     \E customerData \in AsmOutputs(variant, "customer_complexity_analysis") :
     \E churnData \in AsmOutputs(variant, "churn_temporal_conversion") :
     \E burnData \in AsmOutputs(variant, "monthly_burn_normalization") :
     \E valuationData \in AsmOutputs(variant, "valuation_extraction") :
       run = [ FreshRun(docId) EXCEPT
                 !.source = source, !.simpleFields = simpleFields,
                 !.acvData = acvData, !.customerData = customerData,
                 !.churnData = churnData, !.burnData = burnData,
                 !.valuationData = valuationData ]
  /\ prev = NoRun
  /\ runCount = 1
  /\ memo = <<>>
  /\ memoOn = FALSE
  /\ uuidCounter = 0
  /\ clock = 0
  /\ sheet = <<>>
  /\ lastSave = NoSave
  /\ calendar = NoCalendar
  /\ batch = NoBatch
  /\ dbase = NoDb

NextAsm == StageAssemble

SpecAsm == InitAsm /\ [][NextAsm]_vars

(***************************************************************************)
(* Properties of assembleCompleteRecord (SpecAsm).                         *)
(***************************************************************************)
\* The keys of a record of the deployed version.
RecordKeys == Range(KeyOrder) \ (IF variant = "fields" THEN {"url"} ELSE {})

\* The fields that carry data of the document.
DataKeys == RecordKeys \ {"id", "doc_url", "date_created"}

\* The local holding the stage output a data field is taken from.
FieldSource(k) ==
  CASE k \in {"acv", "acv_2"} -> run.acvData
    [] k \in {"customer_count", "customer_count_2"} -> run.customerData
    [] k = "logo_churn_annual" -> run.churnData
    [] k = "monthly_burn" -> run.burnData
    [] k = "last_round_valuation" -> run.valuationData
    [] k = "company_name" /\ variant = "fields" -> run.source
    [] OTHER -> run.simpleFields

\* The key a data field is read from: its own name, but for the company
\* name of the field version, which is the raw field 'Company Name'.
FieldKey(k) == IF k = "company_name" /\ variant = "fields" THEN "Company Name" ELSE k

\* The keys found in some stage output.
StageOutputKeys ==
  UNION { Keys(o) : o \in { x \in { run.simpleFields, run.acvData, run.customerData,
                                    run.churnData, run.burnData, run.valuationData } :
                            IsObject(x) } }

\* What C8 says of the keys of the record, of doc_url and of extra keys.
ClosedRecord ==
  /\ Keys(run.result) = RecordKeys
  /\ GetProp(run.result, "doc_url") =
       Str(<<"https://docs.google.com/document/d/", run.docId>>)
  /\ \A k \in StageOutputKeys \ RecordKeys : k \notin Keys(run.result)

\* C8 (closed-schema merge, as claimed): the record assembleCompleteRecord
\* returned has the fixed key set, every data field equals the value of its
\* key in the stage output it is taken from, doc_url is built from docId,
\* and no extra key of a stage output is in the record.
C8_Original ==
  pc = "returned" =>
    /\ ClosedRecord
    /\ \A k \in DataKeys :
         GetProp(run.result, k) = GetProp(FieldSource(k), FieldKey(k))

\* C8 (closed-schema merge, amended): as claimed, except that the field
\* version takes company_name from the raw field 'Company Name' and turns
\* an empty or missing one into null.
C8_ClosedSchemaMerge ==
  pc = "returned" =>
    /\ ClosedRecord
    /\ \A k \in DataKeys :
         GetProp(run.result, k) =
           IF k = "company_name" /\ variant = "fields"
           THEN OrElse(GetProp(run.source, "Company Name"), Null)
           ELSE GetProp(FieldSource(k), k)

\* The case of C8: a record assembled by the field version from a document
\* without a company name and from a stage output with an extra key.
C8_Witness ==
  /\ pc = "returned"
  /\ variant = "fields"
  /\ GetProp(run.source, "Company Name") = EmptyString
  /\ GetProp(run.result, "company_name") = Null
  /\ "segment" \in Keys(run.acvData)

\* The stage outputs assembleCompleteRecord is called with.
StageOutputs ==
  { run.simpleFields, run.acvData, run.customerData, run.churnData, run.burnData,
    run.valuationData } \cup (IF variant = "fields" THEN {run.source} ELSE {})

\* C9 (assembly fails only on a missing stage output): assembleCompleteRecord
\* throws exactly when one of the stage outputs it is called with is null or
\* undefined, and returns a record otherwise, whatever the objects hold.
C9_AssembleTotal ==
  run.assembled =>
    /\ pc = "thrown" <=> (\E o \in StageOutputs : o \in {Null, Undefined})
    /\ pc = "returned" <=> (\A o \in StageOutputs : o \notin {Null, Undefined})
    /\ pc = "returned" => IsObject(run.result)

\* The case of C9: a record assembled from stage outputs whose fields are
\* all null.
C9_Witness ==
  /\ pc = "returned"
  /\ run.simpleFields = SimpleAllNull(variant)
  /\ run.acvData = Obj([acv |-> Null, acv_2 |-> Null])
  /\ run.customerData = Obj([customer_count |-> Null, customer_count_2 |-> Null])
  /\ run.churnData = Obj([logo_churn_annual |-> Null])
  /\ run.burnData = Obj([monthly_burn |-> Null])
  /\ run.valuationData = Obj([last_round_valuation |-> Null])

(***************************************************************************)
(* saveCompanyRecord on its own: a sequence of calls with any records on a *)
(* sheet that starts empty, with a header row only, or with rows.          *)
(***************************************************************************)
MaxRows == 3

SheetIds == {Uuid(1), Uuid(2), Uuid(3)}
SheetNames == {Str(<<"Acme">>), Str(<<"Beta">>), Null}

\* Records with and without a company name.
SheetRecords ==
  {Obj([id |-> i, company_name |-> n]) : i \in SheetIds, n \in SheetNames}
    \cup {Obj([id |-> i]) : i \in SheetIds}

HeaderRow(keys) == [i \in 1..Len(keys) |-> Str(<<keys[i]>>)]

InitialSheets ==
  { <<>>,
    <<HeaderRow(<<"id", "company_name">>)>>,
    <<HeaderRow(<<"company_name", "id">>), <<Str(<<"Acme">>), Uuid(1)>>>>,
    <<HeaderRow(<<"id", "company_name">>), <<Uuid(2), Str(<<"Beta">>)>>,
      <<Uuid(1), EmptyString>>>>,
    <<HeaderRow(<<"company_name">>)>> }

InitSheet ==
  /\ variant \in {"fields", "fulltext"}
  /\ config \in {{"SPREADSHEET_ID"}, {}}
  /\ pc = "idle"
  /\ run = FreshRun("")
  /\ prev = NoRun
  /\ runCount = 0
  /\ memo = <<>>
  /\ memoOn = FALSE
  /\ uuidCounter = 0
  /\ clock = 0
  /\ sheet \in InitialSheets
  /\ lastSave = NoSave
  /\ calendar = NoCalendar
  /\ batch = NoBatch
  /\ dbase = NoDb

\* A call saveCompanyRecord(record).
CallSave ==
  /\ batch.pc = "off"
  /\ Len(sheet) <= MaxRows
  /\ \E record \in SheetRecords :
       LET out == saveCompanyRecord(sheet, config, record)
       IN /\ sheet' = out.sheet
          /\ lastSave' = [branch |-> out.branch, threw |-> out.threw,
                          record |-> record, before |-> sheet]
  /\ UNCHANGED <<variant, config, pc, run, prev, runCount, memo, memoOn,
                 uuidCounter, clock, batch, dbase, calendar>>

NextSheet == CallSave

SpecSheet == InitSheet /\ [][NextSheet]_vars

(***************************************************************************)
(* Properties of saveCompanyRecord (SpecSheet).                            *)
(***************************************************************************)
HasIdHeader(grid) == grid # <<>> /\ Str(<<"id">>) \in Range(grid[1])

\* The first column headed 'id'.
IdColumn(grid) ==
  CHOOSE c \in 1..Len(grid[1]) :
    /\ grid[1][c] = Str(<<"id">>)
    /\ \A d \in 1..(c - 1) : grid[1][d] # Str(<<"id">>)

DataRows(grid) == 2..Len(grid)

NoSharedId(grid) ==
  \A r1, r2 \in DataRows(grid) :
    r1 # r2 => CellAt(grid, r1, IdColumn(grid)) # CellAt(grid, r2, IdColumn(grid))

\* The data rows of the grid that hold the id.
RowsWithId(grid, id) == {r \in DataRows(grid) : CellAt(grid, r, IdColumn(grid)) = id}

\* The cells a record fills under a header row: the value of the property
\* the column is headed with, empty where the record has none.
RowFor(header, record) ==
  [c \in 1..Len(header) |->
     IF TypeOf(header[c]) = "string" /\ Len(header[c][2]) = 1
          /\ header[c][2][1] \in Keys(record)
          /\ record[2][header[c][2][1]] # Null
     THEN record[2][header[c][2][1]]
     ELSE EmptyString]

\* C6 (idempotent upsert): on a sheet with an 'id' header no two data rows
\* share an id; a completed call whose record id occurred in the id column
\* has overwritten that row and left the number of rows unchanged, and one
\* whose id did not occur has appended exactly one row, the record's.
C6_IdempotentUpsert ==
  /\ HasIdHeader(sheet) => NoSharedId(sheet)
  /\ (lastSave.branch # "none" /\ ~lastSave.threw /\ HasIdHeader(lastSave.before)) =>
       LET before == lastSave.before
           record == lastSave.record
           hits == RowsWithId(before, GetProp(record, "id"))
       IN IF hits # {}
          THEN /\ Len(sheet) = Len(before)
               /\ \A r \in 1..Len(before) :
                    sheet[r] = IF r \in hits THEN RowFor(before[1], record) ELSE before[r]
          ELSE /\ Len(sheet) = Len(before) + 1
               /\ \A r \in 1..Len(before) : sheet[r] = before[r]
               /\ sheet[Len(sheet)] = RowFor(before[1], record)

\* The case of C6: a record saved, saved again under the same id with
\* another name, and found once in the sheet, with the later name.
C6_Witness ==
  /\ lastSave.branch = "update"
  /\ Len(lastSave.before) = 3
  /\ Len(sheet) = 3
  /\ sheet # lastSave.before
  /\ RowsWithId(sheet, GetProp(lastSave.record, "id")) = {3}

(***************************************************************************)
(* processAllCompaniesInMasterFolder (main.js).  The master folder holds   *)
(* subfolders, a subfolder holds Google Docs; `listing` is what the two    *)
(* Drive iterators yield, a sequence of subfolders, each the sequence of   *)
(* its documents.  Listing the folders is assumed not to fail.  One action *)
(* per statement the driver can be at:                                     *)
(*   "off"      not started                                                *)
(*   "folders"  at `while (subfolders.hasNext())`                          *)
(*   "files"    at `while (files.hasNext())`                               *)
(*   "parsing"  inside parseCompanyFromDoc, or back from it                *)
(*   "done"     after `Batch processing complete.`                         *)
(*   "threw"    ended by an uncaught error                                 *)
(* visited (the documents parseCompanyFromDoc was invoked for) and skipped *)
(* (the documents that took the `Skipping file` branch) are not variables  *)
(* of the program; they record what it did.                                *)
(***************************************************************************)
MaxFolders == 2
MaxFiles == 2

BatchDocs == {"doc-full", "doc-empty", "doc-gone"}

SeqsUpTo(S, n) == UNION {[1..k -> S] : k \in 0..n}

RECURSIVE Flatten(_)
Flatten(listing) ==
  IF listing = <<>> THEN <<>> ELSE Head(listing) \o Flatten(Tail(listing))

Count(seq, x) == Cardinality({i \in DOMAIN seq : seq[i] = x})

\* A document is listed in one subfolder, once.
Listings ==
  { l \in SeqsUpTo(SeqsUpTo(BatchDocs, MaxFiles), MaxFolders) :
      \A d \in BatchDocs : Count(Flatten(l), d) <= 1 }

InitBatch ==
  /\ variant \in {"fields", "fulltext"}
  /\ config \in { {"SPREADSHEET_ID", "MASTER_FOLDER_ID"}, {"MASTER_FOLDER_ID"},
                  {"SPREADSHEET_ID"} }
  /\ pc = "idle"
  /\ run = FreshRun("")
  /\ prev = NoRun
  /\ runCount = 0
  /\ memo = <<>>
  /\ memoOn = FALSE
  /\ uuidCounter = 0
  /\ clock = 0
  /\ sheet \in {<<>>, <<HeaderRow(<<"id", "company_name">>)>>}
  /\ lastSave = NoSave
  /\ calendar = NoCalendar
  /\ \E l \in Listings : batch = [NoBatch EXCEPT !.listing = l]
  /\ dbase = NoDb

batchFrame == <<variant, config, prev, runCount, memo, memoOn, dbase, calendar>>

\* Lines 18-28: the configuration check, the folder lookup, the counters.
BatchStart ==
  /\ batch.pc = "off"
  /\ batch' = IF "MASTER_FOLDER_ID" \notin config
              THEN [batch EXCEPT !.pc = "threw"]
              ELSE [batch EXCEPT !.pc = "folders", !.subfolders = batch.listing,
                                 !.processedCount = 0, !.errorCount = 0,
                                 !.runs = @ + 1]
  /\ UNCHANGED <<pc, run, uuidCounter, clock, sheet, lastSave, calendar>>
  /\ UNCHANGED batchFrame

\* Lines 30-34 and 61-65: the next subfolder, or the end of the batch.
BatchNextFolder ==
  /\ batch.pc = "folders"
  /\ batch' = IF batch.subfolders = <<>>
              THEN [batch EXCEPT !.pc = "done"]
              ELSE [batch EXCEPT !.pc = "files", !.files = Head(batch.subfolders),
                                 !.subfolders = Tail(batch.subfolders)]
  /\ UNCHANGED <<pc, run, uuidCounter, clock, sheet, lastSave, calendar>>
  /\ UNCHANGED batchFrame

\* Lines 36-43: the next document of the subfolder, and the call of
\* parseCompanyFromDoc(docId); or the end of the subfolder.
BatchNextFile ==
  /\ batch.pc = "files"
  /\ pc = "idle"
  /\ IF batch.files = <<>>
     THEN /\ batch' = [batch EXCEPT !.pc = "folders"]
          /\ UNCHANGED <<pc, run, calendar>>
     ELSE /\ batch' = [batch EXCEPT !.pc = "parsing", !.files = Tail(batch.files),
                                    !.visited = Append(@, Head(batch.files))]
          /\ run' = FreshRun(Head(batch.files))
          /\ pc' = "extract"
  /\ UNCHANGED <<uuidCounter, clock, sheet, lastSave, calendar>>
  /\ UNCHANGED batchFrame

\* A faulty variant: the catch block rethrows, which ends the batch.
BatchCatchRethrow ==
  /\ batch.pc = "parsing"
  /\ pc = "thrown"
  /\ batch' = [batch EXCEPT !.pc = "threw", !.errorCount = @ + 1]
  /\ pc' = "idle"
  /\ run' = FreshRun("")
  /\ UNCHANGED <<uuidCounter, clock, sheet, lastSave, calendar>>
  /\ UNCHANGED batchFrame

\* Lines 53-57: parseCompanyFromDoc threw; the catch block counts the error.
BatchCatch ==
  /\ batch.pc = "parsing"
  /\ pc = "thrown"
  /\ batch' = [batch EXCEPT !.pc = "files", !.errorCount = @ + 1]
  /\ pc' = "idle"
  /\ run' = FreshRun("")
  /\ UNCHANGED <<uuidCounter, clock, sheet, lastSave, calendar>>
  /\ UNCHANGED batchFrame

\* companyRecord && companyRecord.company_name
ValidRecord(companyRecord) ==
  Truthy(companyRecord) /\ Truthy(GetProp(companyRecord, "company_name"))

\* A faulty variant: processedCount is incremented before the save, so a
\* document whose save fails is counted twice.
BatchSaveCountFirst ==
  /\ batch.pc = "parsing"
  /\ pc = "returned"
  /\ ValidRecord(run.result)
  /\ LET out == saveCompanyRecord(sheet, config, run.result)
     IN /\ sheet' = out.sheet
        /\ batch' = IF out.threw
                    THEN [batch EXCEPT !.pc = "files", !.processedCount = @ + 1,
                                       !.errorCount = @ + 1]
                    ELSE [batch EXCEPT !.pc = "files", !.processedCount = @ + 1]
  /\ pc' = "idle"
  /\ run' = FreshRun("")
  /\ UNCHANGED <<uuidCounter, clock, lastSave, calendar>>
  /\ UNCHANGED batchFrame

\* Lines 46-49 and 53-57: a record with a company name is saved;
\* processedCount counts it if saveCompanyRecord returns, errorCount if it
\* throws.
BatchSave ==
  /\ batch.pc = "parsing"
  /\ pc = "returned"
  /\ ValidRecord(run.result)
  /\ LET out == saveCompanyRecord(sheet, config, run.result)
     IN /\ sheet' = out.sheet
        /\ batch' = IF out.threw
                    THEN [batch EXCEPT !.pc = "files", !.errorCount = @ + 1]
                    ELSE [batch EXCEPT !.pc = "files", !.processedCount = @ + 1]
  /\ pc' = "idle"
  /\ run' = FreshRun("")
  /\ UNCHANGED <<uuidCounter, clock, lastSave, calendar>>
  /\ UNCHANGED batchFrame

\* Lines 50-52: a record without a company name is neither saved nor
\* counted: `Skipping file, parsing did not return a valid company record`.
BatchSkip ==
  /\ batch.pc = "parsing"
  /\ pc = "returned"
  /\ ~ValidRecord(run.result)
  /\ batch' = [batch EXCEPT !.pc = "files", !.skipped = @ + 1]
  /\ pc' = "idle"
  /\ run' = FreshRun("")
  /\ UNCHANGED <<uuidCounter, clock, sheet, lastSave, calendar>>
  /\ UNCHANGED batchFrame

NextBatch ==
  \/ BatchStart
  \/ BatchNextFolder
  \/ BatchNextFile
  \/ StageExtract
  \/ StageSimple
  \/ StageACV
  \/ StageCustomer
  \/ StageChurn
  \/ StageBurn
  \/ StageValuation
  \/ StageAssemble
  \/ BatchCatch
  \/ BatchSave
  \/ BatchSkip

SpecBatch == InitBatch /\ [][NextBatch]_vars

\* The batches that get past the configuration check, on a sheet that is
\* empty before the first save.
InitBatchLive ==
  /\ InitBatch
  /\ "MASTER_FOLDER_ID" \in config
  /\ sheet = <<>>

\* Apps Script runs the function to its end, one statement after the other:
\* a step that can be taken is taken.
SpecBatchLive == InitBatchLive /\ [][NextBatch]_vars /\ WF_vars(NextBatch)

(***************************************************************************)
(* Properties of the batch driver (SpecBatch, SpecBatchLive).              *)
(***************************************************************************)
\* parseCompanyFromDoc has been invoked exactly once for every listed document.
EachParsedOnce ==
  \A d \in BatchDocs : Count(batch.visited, d) = Count(Flatten(batch.listing), d)

\* C4 (batch isolation): with MASTER_FOLDER_ID set, the driver reaches
\* `Batch processing complete` with parseCompanyFromDoc invoked exactly
\* once for every document of every subfolder, whatever failed on the way.
\* (visited only grows and "done" is final, so no document is parsed twice
\* on the way either.)
C4_BatchIsolation ==
  ("MASTER_FOLDER_ID" \in config) => <>(batch.pc = "done" /\ EachParsedOnce)

\* The case of C4: a batch of three documents on an empty sheet, complete:
\* the first document could not be parsed, the save of the second failed,
\* the third was saved.
C4_Witness ==
  /\ batch.pc = "done"
  /\ Len(batch.visited) = 3
  /\ batch.visited[1] = "doc-gone"
  /\ batch.errorCount = 2
  /\ batch.processedCount = 1
  /\ Len(sheet) = 2

\* C5 (batch accounting, as claimed): when the batch is complete,
\* processedCount + errorCount is the number of documents visited.
C5_Original ==
  batch.pc = "done" =>
    batch.processedCount + batch.errorCount = Len(batch.visited)

\* C5 (batch accounting, amended): whenever the driver is between two
\* documents, and when the batch is complete, every document visited has
\* been counted exactly once as processed or as failed, or was skipped
\* uncounted because its record had no company name.
C5_BatchAccounting ==
  batch.pc \in {"folders", "files", "done"} =>
    /\ batch.processedCount + batch.errorCount + batch.skipped = Len(batch.visited)
    /\ batch.pc = "done" => Len(batch.visited) = Len(Flatten(batch.listing))

\* The case of C5: a complete batch with a document processed, a document
\* failed and a document skipped.
C5_Witness ==
  /\ batch.pc = "done"
  /\ batch.processedCount = 1
  /\ batch.errorCount = 1
  /\ batch.skipped = 1

(***************************************************************************)
(* The six classifier stages in any order.  parseCompanyFromDoc runs them  *)
(* one after the other; here the extraction has run, the classifier has a  *)
(* fixed answer for the prompt of every stage, and the six stage calls of  *)
(* lines 36-62 (698-709) are taken in any order before the assembly.       *)
(* run.steps holds the schema names in the order the stages ran.           *)
(***************************************************************************)
StageSet == Range(StageNames)

OrderDocIds == {"doc-full", "doc-labels"}

\* The answers the classifier may be fixed to, per stage.
OrderAnswers(v, name) ==
  CASE name = "simple_fields_batch" -> {Answer(SimpleFull(v)), Answer(SimpleAllNull(v))}
    [] name = "acv_complexity_analysis" ->
         { Answer(Obj([acv |-> Num(25000000), acv_2 |-> Null])),
           Answer(Obj([acv |-> Num(25000000), acv_2 |-> Num(80000)])) }
    [] name = "customer_complexity_analysis" ->
         { Answer(Obj([customer_count |-> Num(300), customer_count_2 |-> Null])),
           Answer(Obj([customer_count |-> Num(300), customer_count_2 |-> Num(30000)])) }
    [] name = "churn_temporal_conversion" ->
         {Answer(Obj([logo_churn_annual |-> Num(22)])), Answer(Obj([logo_churn_annual |-> Null]))}
    [] name = "monthly_burn_normalization" -> {Answer(Obj([monthly_burn |-> Num(0)]))}
    [] OTHER -> {Answer(Obj([last_round_valuation |-> Num(500000000)]))}

InitOrder ==
  /\ variant \in {"fields", "fulltext"}
  /\ config = {"SPREADSHEET_ID", "MASTER_FOLDER_ID"}
  /\ pc = "anyorder"
  /\ \E docId \in OrderDocIds :
       run = [ FreshRun(docId) EXCEPT
                 !.source = IF variant = "fulltext" THEN DocumentText(docId)
                            ELSE extractRawFieldsFromDoc(docId) ]
  /\ prev = NoRun
  /\ runCount = 1
  /\ \E answer \in [StageSet -> UNION {OrderAnswers(variant, n) : n \in StageSet}] :
       /\ \A n \in StageSet : answer[n] \in OrderAnswers(variant, n)
       /\ memo = [p \in {StagePrompt(n) : n \in StageSet} |-> answer[p[1]]]
  /\ memoOn = TRUE
  /\ uuidCounter = 0
  /\ clock = 0
  /\ sheet = <<>>
  /\ lastSave = NoSave
  /\ calendar = NoCalendar
  /\ batch = NoBatch
  /\ dbase = NoDb

\* One stage call, whenever it is taken.
OrderAdvance(name, field, out, response) ==
  /\ run' = [run EXCEPT ![field] = out.value,
                        !.steps = Append(@, name),
                        !.calls = IF out.called
                                  THEN Append(@, CallEntry(name, response))
                                  ELSE @]
  /\ pc' = IF out.threw THEN "thrown"
           ELSE IF Len(run.steps) = Len(StageNames) - 1 THEN "assemble"
           ELSE "anyorder"
  /\ UNCHANGED <<memo, uuidCounter, clock, calendar>>
  /\ UNCHANGED callerVars

NotYet(name) == \A i \in DOMAIN run.steps : run.steps[i] # name

OrderSimple ==
  /\ pc = "anyorder" /\ NotYet("simple_fields_batch")
  /\ \E response \in Classify("simple_fields_batch", AnyResponse("simple_fields_batch")) :
       OrderAdvance("simple_fields_batch", "simpleFields",
                    parseSimpleFieldsBatch(StageText("simple_fields_batch"), response),
                    response)

OrderACV ==
  /\ pc = "anyorder" /\ NotYet("acv_complexity_analysis")
  /\ \E response \in Classify("acv_complexity_analysis", AnyResponse("acv_complexity_analysis")) :
       OrderAdvance("acv_complexity_analysis", "acvData",
                    analyzeACVComplexity(StageText("acv_complexity_analysis"), response),
                    response)

OrderCustomer ==
  /\ pc = "anyorder" /\ NotYet("customer_complexity_analysis")
  /\ \E response \in Classify("customer_complexity_analysis", AnyResponse("customer_complexity_analysis")) :
       OrderAdvance("customer_complexity_analysis", "customerData",
                    analyzeCustomerComplexity(StageText("customer_complexity_analysis"), response),
                    response)

OrderChurn ==
  /\ pc = "anyorder" /\ NotYet("churn_temporal_conversion")
  /\ \E response \in Classify("churn_temporal_conversion", AnyResponse("churn_temporal_conversion")) :
       OrderAdvance("churn_temporal_conversion", "churnData",
                    convertChurnToAnnual(StageText("churn_temporal_conversion"), response),
                    response)

OrderBurn ==
  /\ pc = "anyorder" /\ NotYet("monthly_burn_normalization")
  /\ \E response \in Classify("monthly_burn_normalization", AnyResponse("monthly_burn_normalization")) :
       OrderAdvance("monthly_burn_normalization", "burnData",
                    normalizeMonthlyBurn(StageText("monthly_burn_normalization"), response),
                    response)

OrderValuation ==
  /\ pc = "anyorder" /\ NotYet("valuation_extraction")
  /\ \E response \in Classify("valuation_extraction", AnyResponse("valuation_extraction")) :
       OrderAdvance("valuation_extraction", "valuationData",
                    extractLastRoundValuation(StageText("valuation_extraction"), response),
                    response)

NextOrder ==
  \/ OrderSimple
  \/ OrderACV
  \/ OrderCustomer
  \/ OrderChurn
  \/ OrderBurn
  \/ OrderValuation
  \/ StageAssemble

SpecOrder == InitOrder /\ [][NextOrder]_vars

(***************************************************************************)
(* Properties of the stage order (SpecOrder).                              *)
(***************************************************************************)
\* The order parseCompanyFromDoc runs the stages in.
CodeOrder ==
  << "simple_fields_batch", "acv_complexity_analysis", "customer_complexity_analysis",
     "churn_temporal_conversion", "monthly_burn_normalization", "valuation_extraction",
     "assemble" >>

\* The text and the prompt of a stage as the source alone determines them.
IsolatedText(name) ==
  IF variant = "fulltext" \/ name = "simple_fields_batch" THEN run.source
  ELSE CASE name = "acv_complexity_analysis" -> Raw("ACV")
         [] name = "customer_complexity_analysis" -> Raw("# of Customers")
         [] name = "churn_temporal_conversion" -> Raw("Logo Churn Annual")
         [] name = "monthly_burn_normalization" -> Raw("Monthly Burn")
         [] OTHER -> Joined(Raw("Active round / fundraise Notes"),
                            Raw("Other Funding Notes"))

IsolatedPrompt(name) ==
  IF variant = "fulltext" THEN <<name, run.source>>
  ELSE CASE name = "acv_complexity_analysis" ->
              << name, IsolatedText(name),
                 OrElse(Raw("Revenue Notes"), NotProvided),
                 OrElse(Raw("ARR Run Rate"), NotProvided),
                 OrElse(Raw("# of Customers"), NotProvided) >>
         [] name = "customer_complexity_analysis" ->
              << name, IsolatedText(name),
                 OrElse(Raw("Customer Notes"), NotProvided),
                 OrElse(Raw("ACV"), NotProvided),
                 OrElse(Raw("Revenue Notes"), NotProvided) >>
         [] name = "valuation_extraction" ->
              << name, IsolatedText(name),
                 OrElse(Raw("Raised"), NotProvided),
                 OrElse(Raw("Raising"), NotProvided) >>
         [] OTHER -> <<name, IsolatedText(name)>>

\* What the stage with schema `name` returns when it runs on the source
\* alone, before any other stage: its text blank or not, and the fixed
\* answer of the classifier.
OutputInIsolation(name) ==
  LET response == memo[IsolatedPrompt(name)]
      text == IsolatedText(name)
  IN CASE name = "simple_fields_batch" -> response.payload
       [] name = "acv_complexity_analysis" ->
            IF IsBlankText(text) THEN Obj([acv |-> Null, acv_2 |-> Null])
            ELSE response.payload
       [] name = "customer_complexity_analysis" ->
            IF IsBlankText(text)
            THEN Obj([customer_count |-> Null, customer_count_2 |-> Null])
            ELSE response.payload
       [] name = "churn_temporal_conversion" ->
            IF IsBlankText(text) THEN Obj([logo_churn_annual |-> Null])
            ELSE Obj([logo_churn_annual |-> GetProp(response.payload, "logo_churn_annual")])
       [] name = "monthly_burn_normalization" ->
            IF IsBlankText(text) THEN Obj([monthly_burn |-> Null])
            ELSE Obj([monthly_burn |-> GetProp(response.payload, "monthly_burn")])
       [] OTHER ->
            IF IsBlankText(text) THEN Obj([last_round_valuation |-> Null])
            ELSE Obj([last_round_valuation |->
                        GetProp(response.payload, "last_round_valuation")])

\* The schema name of the stage a data field is taken from.
FieldStage(k) ==
  CASE k \in {"acv", "acv_2"} -> "acv_complexity_analysis"
    [] k \in {"customer_count", "customer_count_2"} -> "customer_complexity_analysis"
    [] k = "logo_churn_annual" -> "churn_temporal_conversion"
    [] k = "monthly_burn" -> "monthly_burn_normalization"
    [] k = "last_round_valuation" -> "valuation_extraction"
    [] OTHER -> "simple_fields_batch"

\* C11 (order-insensitivity): with a classifier that has one answer per
\* stage, whatever order the six stages ran in, every stage output is what
\* the stage returns on the source alone, and every field of the assembled
\* record that is taken from a stage has the value of that output: the
\* same values in every order.
C11_OrderInsensitive ==
  /\ \A i \in DOMAIN run.steps :
       run.steps[i] \in StageSet =>
         StageLocal(run.steps[i]) = OutputInIsolation(run.steps[i])
  /\ pc = "returned" =>
       \A k \in DataKeys \ (IF variant = "fields" THEN {"company_name"} ELSE {}) :
         GetProp(run.result, k) = GetProp(OutputInIsolation(FieldStage(k)), k)

\* The case of C11: a record assembled after the six stages ran in the
\* reverse of the order of the code, each calling the classifier.
C11_Witness ==
  /\ pc = "returned"
  /\ Len(run.calls) = 6
  /\ \A i \in 1..6 : run.steps[i] = CodeOrder[7 - i]

(***************************************************************************)
(* More properties of the pipeline (SpecPipe).                             *)
(***************************************************************************)
\* C12 (no retry): in a run of parseCompanyFromDoc no stage has invoked the
\* classifier more than once, so there are at most six invocations, and a
\* failed invocation is the last one of the run.
C12_NoRetry ==
  /\ Len(run.calls) <= 6
  /\ \A i, j \in DOMAIN run.calls : run.calls[i][1] = run.calls[j][1] => i = j
  /\ \A i \in DOMAIN run.calls : run.calls[i][2] \in FailureKinds => i = Len(run.calls)

\* The case of C12: the third invocation of a run failed and the run is
\* over, with three invocations made.
C12_Witness ==
  /\ pc = "thrown"
  /\ Len(run.calls) = 3
  /\ run.calls[3][2] \in FailureKinds

(***************************************************************************)
(* More properties of the batch driver (SpecBatch).                        *)
(***************************************************************************)
\* The driver is inside the iteration of a document that cannot be opened.
SourceUnavailable == batch.pc = "parsing" /\ ~DocumentAvailable(run.docId)

\* C13 (source unavailable): while the driver handles a document whose text
\* cannot be obtained, no step makes a classifier call or writes to the
\* sheet; the step that ends the handling adds exactly one to errorCount,
\* leaves processedCount as it is, and puts the driver back at the head of
\* the file loop, from where it takes the next document.
C13_SourceUnavailable ==
  [][ SourceUnavailable =>
        /\ run.calls = <<>> /\ run'.calls = <<>>
        /\ sheet' = sheet
        /\ ~run'.assembled
        /\ batch'.pc # "parsing" =>
             /\ batch'.pc = "files"
             /\ batch'.errorCount = batch.errorCount + 1
             /\ batch'.processedCount = batch.processedCount
             /\ batch'.files = batch.files /\ batch'.subfolders = batch.subfolders ]_vars

\* The case of C13: the first document of the batch could not be opened,
\* was counted as the only failure so far, and the driver is at work on the
\* document after it.
C13_Witness ==
  /\ Len(batch.visited) = 2
  /\ batch.visited[1] = "doc-gone"
  /\ batch.errorCount = 1
  /\ batch.pc = "parsing"
  /\ pc = "simple"

(***************************************************************************)
(* The database write utility (src/unnamed/part_001).                      *)
(*                                                                         *)
(* Numbers beyond the finite ones: NaN is <<"nan", 0>>, the infinities are *)
(* <<"inf", 1>> and <<"inf", -1>>.  `typeof` calls all of them "number".   *)
(* JSON.parse yields Infinity for a literal such as 1e999, and Number      *)
(* yields NaN for a string that is no numeral.                             *)
(***************************************************************************)
\* typeof v
JsTypeOf(v) ==
  CASE TypeOf(v) \in {"number", "nan", "inf"} -> "number"
    [] TypeOf(v) = "null" -> "object"
    [] OTHER -> TypeOf(v)

\* The numerals that occur in the strings of this model, in hundredths.
NumericLiterals == ("12" :> 1200) @@ ("12.5" :> 1250) @@ ("300" :> 30000)

\* Number(v): the empty and the white-space-only string convert to 0, a
\* numeral to its value, every other string to NaN.
ToNumber(v) ==
  CASE TypeOf(v) \in {"number", "nan", "inf"} -> v
    [] TypeOf(v) = "null" -> Num(0)
    [] TypeOf(v) = "string" ->
         LET t == Trim(v[2])
         IN IF t = <<>> THEN Num(0)
            ELSE IF Len(t) = 1 /\ t[1] \in DOMAIN NumericLiterals
            THEN Num(NumericLiterals[t[1]])
            ELSE NaN
    [] OTHER -> NaN

\* isNaN(v), which converts v to a number first
IsNaN(v) == ToNumber(v) = NaN

\* a < b, for operands converted to numbers; false when either is NaN
LessThan(a, b) ==
  LET x == ToNumber(a)
      y == ToNumber(b)
      sx == IF TypeOf(x) = "inf" THEN x[2] ELSE 0
      sy == IF TypeOf(y) = "inf" THEN y[2] ELSE 0
  IN /\ x # NaN /\ y # NaN
     /\ \/ sx < sy
        \/ sx = 0 /\ sy = 0 /\ x[2] < y[2]

\* Number.isInteger(v): no conversion
NumberIsInteger(v) == TypeOf(v) = "number" /\ v[2] % 100 = 0

\* Math.round(v) for a number: to the nearest integer, halves upwards
MathRound(v) ==
  IF TypeOf(v) = "number" THEN Num(((v[2] + 50) \div 100) * 100) ELSE v

\* new Date().getFullYear()
CurrentYear == Num(202600)

(***************************************************************************)
(* validateCompanyRecord(companyRecord): the errors in the order they are  *)
(* pushed.  An error is <<check, field>>.                                  *)
(***************************************************************************)
RequiredFields == <<"id", "company_name", "doc_url", "date_created">>

ValidatedNumericFields ==
  << "arr_run_rate", "carr", "revenue_2024", "revenue_2023", "revenue_2022",
     "monthly_burn", "cash", "runway", "raising", "raised", "last_round_valuation",
     "acv", "acv_2", "customer_count", "customer_count_2", "logo_churn_annual",
     "cac", "payback_period", "ltv_to_cac", "gross_margin", "saas_recurring_percent",
     "nrr" >>

PercentageFields == <<"gross_margin", "saas_recurring_percent", "logo_churn_annual">>

ValidatedIntegerFields == <<"team_size", "year_founded", "customer_count", "customer_count_2">>

\* value !== null && value !== undefined
Present(v) == v # Null /\ v # Undefined

\* value !== null && value !== undefined && (value < 0 || value > 5)
PercentOutOfRange(value) ==
  Present(value) /\ (LessThan(value, Num(0)) \/ LessThan(Num(500), value))

\* value !== null && value !== undefined && (isNaN(value) || typeof value !== 'number')
NotNumeric(value) ==
  Present(value) /\ (IsNaN(value) \/ JsTypeOf(value) # "number")

\* return { isValid: errors.length === 0, errors: errors }
ValidationResult(errors) == [isValid |-> Len(errors) = 0, errors |-> errors]

validateCompanyRecord(companyRecord) ==
  LET val(field) == GetProp(companyRecord, field)
      missing == SelectSeq(RequiredFields,
                   LAMBDA f : \/ Falsy(val(f))
                              \/ (TypeOf(val(f)) = "string" /\ Trim(val(f)[2]) = <<>>))
      numeric == SelectSeq(ValidatedNumericFields, LAMBDA f : NotNumeric(val(f)))
      percent == SelectSeq(PercentageFields, LAMBDA f : PercentOutOfRange(val(f)))
      integer == SelectSeq(ValidatedIntegerFields,
                   LAMBDA f : Present(val(f)) /\ ~NumberIsInteger(val(f)))
      year == IF /\ Present(val("year_founded"))
                 /\ \/ LessThan(val("year_founded"), Num(180000))
                    \/ LessThan(CurrentYear, val("year_founded"))
              THEN <<"year_founded">> ELSE <<>>
      acv == IF val("acv_2") # Null /\ val("acv") = Null THEN <<"acv_2">> ELSE <<>>
      customer == IF val("customer_count_2") # Null /\ val("customer_count") = Null
                  THEN <<"customer_count_2">> ELSE <<>>
      tag(check, fields) == [i \in 1..Len(fields) |-> <<check, fields[i]>>]
  IN ValidationResult(tag("required", missing) \o tag("numeric", numeric)
                        \o tag("percentage", percent) \o tag("integer", integer)
                        \o tag("year", year) \o tag("segment", acv)
                        \o tag("segment", customer))

(***************************************************************************)
(* sanitizeCompanyRecord(companyRecord): the object it returns (value),    *)
(* and the object it was handed as it is after the call (received).        *)
(***************************************************************************)
SanitizedStringFields ==
  { "company_name", "location", "description", "competition", "revenue_notes",
    "funding_notes", "good", "challenges", "needs_action" }

SanitizedNumericFields ==
  { "arr_run_rate", "carr", "revenue_2024", "revenue_2023", "revenue_2022",
    "monthly_burn", "cash", "runway", "raising", "raised", "last_round_valuation",
    "acv", "acv_2", "logo_churn_annual", "cac", "payback_period", "ltv_to_cac",
    "gross_margin", "saas_recurring_percent", "nrr" }

SanitizedIntegerFields == {"team_size", "year_founded", "customer_count", "customer_count_2"}

\* The value sanitizeCompanyRecord leaves in a field.
SanitizedValue(field, v) ==
  CASE field \in SanitizedStringFields /\ Truthy(v) /\ TypeOf(v) = "string" ->
         IF Trim(v[2]) = <<>> THEN Null ELSE Str(Trim(v[2]))
    [] field \in SanitizedNumericFields /\ Present(v) -> ToNumber(v)
    [] field \in SanitizedIntegerFields /\ Present(v) -> MathRound(ToNumber(v))
    [] OTHER -> v

\* A faulty variant: the fields are rewritten in the object that was handed
\* in, without the copy `{ ...companyRecord }`.
sanitizeCompanyRecordInPlace(companyRecord) ==
  LET sanitized == Obj([k \in Keys(companyRecord) |-> SanitizedValue(k, companyRecord[2][k])])
  IN [received |-> sanitized, value |-> sanitized]

sanitizeCompanyRecord(companyRecord) ==
  LET sanitized == Obj([k \in Keys(companyRecord) |-> SanitizedValue(k, companyRecord[2][k])])
  IN [received |-> companyRecord, value |-> sanitized]

(***************************************************************************)
(* The database operations.  No database is configured in this utility:    *)
(* findExistingCompany finds nothing, insertNewCompany and                 *)
(* performDatabaseUpdate throw.  `attempts` lists the operations that were *)
(* attempted on the database, `rows` the rows that were written.           *)
(***************************************************************************)
Bool(b) == <<"boolean", b>>
Array(seq) == <<"array", seq>>

NotConfigured == Str(<<"Error: Database connection not yet configured.">>)

\* findExistingCompany(companyRecord): `return null` on both paths
findExistingCompany(companyRecord) == Null

\* insertNewCompany(companyRecord): logs and throws; nothing is written
insertNewCompany(rows, companyRecord) ==
  [threw |-> TRUE, error |-> NotConfigured, rows |-> rows, id |-> Undefined]

\* performDatabaseUpdate(companyId, updatedRecord): logs and throws
performDatabaseUpdate(rows, companyId, updatedRecord) ==
  [threw |-> TRUE, error |-> NotConfigured, rows |-> rows]

\* updateExistingCompany(companyId, updatedRecord), at the time `now`
updateExistingCompany(rows, companyId, updatedRecord, now) ==
  LET recordWithTimestamp ==
        Obj(("date_updated" :> IsoString(now)) @@ updatedRecord[2])
      updateResult == performDatabaseUpdate(rows, companyId, recordWithTimestamp)
  IN [ received |-> updatedRecord,
       copy |-> recordWithTimestamp,
       attempts |-> <<"update">>,
       rows |-> updateResult.rows,
       value |-> IF updateResult.threw
                 THEN Obj([success |-> Bool(FALSE), error |-> updateResult.error,
                           company_name |-> GetProp(updatedRecord, "company_name")])
                 ELSE Obj([success |-> Bool(TRUE), id |-> companyId,
                           action |-> Str(<<"updated">>),
                           company_name |-> GetProp(updatedRecord, "company_name")]) ]

\* The result for a record that failed the validation.
ValidationFailed(rows, validationResult) ==
  [ threw |-> FALSE, invoked |-> <<>>, attempts |-> <<>>, rows |-> rows,
    value |-> Obj([success |-> Bool(FALSE),
                   error |-> Str(<<"Validation failed">>),
                   details |-> Array(validationResult.errors)]) ]

\* A faulty variant: without the try/catch, the error of the insert reaches
\* the caller.
saveValidatedNoCatch(rows, companyRecord, now, validationResult) ==
  IF ~validationResult.isValid
  THEN ValidationFailed(rows, validationResult)
  ELSE
    LET saveResult == insertNewCompany(rows, companyRecord) IN
    [ threw |-> saveResult.threw,
      invoked |-> <<"findExistingCompany", "insertNewCompany">>,
      attempts |-> <<"insert">>, rows |-> saveResult.rows,
      value |-> IF saveResult.threw THEN Undefined
                ELSE Obj([success |-> Bool(TRUE), id |-> saveResult.id,
                          action |-> Str(<<"created">>),
                          company_name |-> GetProp(companyRecord, "company_name")]) ]

saveCompanyToDatabaseNoCatch(rows, companyRecord, now) ==
  saveValidatedNoCatch(rows, companyRecord, now, validateCompanyRecord(companyRecord))

\* The part of saveCompanyToDatabase after validateCompanyRecord has
\* returned validationResult.
saveValidated(rows, companyRecord, now, validationResult) ==
  IF ~validationResult.isValid
  THEN ValidationFailed(rows, validationResult)
  ELSE
    LET existingCompany == findExistingCompany(companyRecord) IN
    IF Truthy(existingCompany)
    THEN LET upd == updateExistingCompany(rows, GetProp(existingCompany, "id"),
                                          companyRecord, now)
         IN [ threw |-> FALSE,
              invoked |-> <<"findExistingCompany", "updateExistingCompany">>,
              attempts |-> upd.attempts, rows |-> upd.rows, value |-> upd.value ]
    ELSE LET saveResult == insertNewCompany(rows, companyRecord) IN
         [ threw |-> FALSE,
           invoked |-> <<"findExistingCompany", "insertNewCompany">>,
           attempts |-> <<"insert">>, rows |-> saveResult.rows,
           value |-> IF saveResult.threw
                     THEN Obj([success |-> Bool(FALSE), error |-> saveResult.error,
                               company_name |-> GetProp(companyRecord, "company_name")])
                     ELSE Obj([success |-> Bool(TRUE), id |-> saveResult.id,
                               action |-> Str(<<"created">>),
                               company_name |-> GetProp(companyRecord, "company_name")]) ]

\* saveCompanyToDatabase(companyRecord): everything after the first log line
\* is inside try, and the catch block returns a result object.  `invoked`
\* lists the functions called after the validation.
saveCompanyToDatabase(rows, companyRecord, now) ==
  saveValidated(rows, companyRecord, now, validateCompanyRecord(companyRecord))

(***************************************************************************)
(* The database write utility on its own: one call of one of its           *)
(* functions.  parseAndSaveCompany runs parseCompanyFromDoc in between.    *)
(*   dbase.given     the object handed to the function, as it was          *)
(*   dbase.received  the same object after the call                        *)
(*   dbase.copy      the object the function made of it                    *)
(*   dbase.returned  what the call returned                                *)
(***************************************************************************)
DbDocIds == {"doc-full", "doc-gone"}

\* A record as the pipeline assembles it from sound answers.
SoundRecord ==
  assembleCompleteRecordFullText(
    "doc-full", DbSimple("fulltext"),
    Obj([acv |-> Num(25000000), acv_2 |-> Num(80000)]),
    Obj([customer_count |-> Num(30000), customer_count_2 |-> Num(300)]),
    Obj([logo_churn_annual |-> Num(22)]),
    Obj([monthly_burn |-> Num(0)]),
    Obj([last_round_valuation |-> Num(500000000)]), 1, 0).value

\* The values put in place of one field of the sound record.
TestValues ==
  { Null, Undefined, Num(0), Num(45), Num(500), Num(501), Num(-1), Num(1250),
    Num(12000), Num(202700), NaN, Infinity, NegInfinity,
    Str(<<"NA">>), Str(<<"12">>), Str(<<"SP">>), Str(<<"SP", "NA", "SP">>),
    EmptyString }

\* The record without the key k.
Without(record, k) == Obj([x \in Keys(record) \ {k} |-> record[2][x]])

\* Records whose primary or secondary segment value is null or absent.
SegmentRecords ==
  UNION { { Without(SoundRecord, pair[1]),
            Without(SoundRecord, pair[2]),
            Without(Without(SoundRecord, pair[1]), pair[2]),
            Obj([Without(SoundRecord, pair[2])[2] EXCEPT ![pair[1]] = Null]),
            Obj([Without(SoundRecord, pair[1])[2] EXCEPT ![pair[2]] = Null]),
            Obj([SoundRecord[2] EXCEPT ![pair[1]] = Null, ![pair[2]] = Null]) } :
          pair \in {<<"acv", "acv_2">>, <<"customer_count", "customer_count_2">>} }

ValidateRecords ==
  {SoundRecord} \cup SegmentRecords \cup
  { Obj([SoundRecord[2] EXCEPT ![field] = value]) :
      field \in Keys(SoundRecord), value \in TestValues }

UpdateRecords ==
  { SoundRecord,
    Obj(("date_updated" :> IsoString(0)) @@ SoundRecord[2]),
    Obj([SoundRecord[2] EXCEPT !["team_size"] = Num(1250)]) }

InitDb ==
  /\ variant \in {"fields", "fulltext"}
  /\ config = {"SPREADSHEET_ID", "MASTER_FOLDER_ID"}
  /\ pc = "idle"
  /\ run = FreshRun("")
  /\ prev = NoRun
  /\ runCount = 0
  /\ memo = <<>>
  /\ memoOn = FALSE
  /\ uuidCounter = 0
  /\ clock = 0
  /\ sheet = <<>>
  /\ lastSave = NoSave
  /\ calendar = NoCalendar
  /\ batch = NoBatch
  /\ dbase = NoDb

dbFrame == <<variant, config, pc, run, prev, runCount, memo, memoOn, uuidCounter,
             sheet, lastSave, batch, calendar>>

\* validateCompanyRecord(companyRecord)
DbValidate ==
  /\ dbase.pc = "off"
  /\ \E companyRecord \in ValidateRecords :
       LET validationResult == validateCompanyRecord(companyRecord)
       IN dbase' = [dbase EXCEPT !.pc = "done", !.call = "validateCompanyRecord",
                                 !.given = companyRecord, !.received = companyRecord,
                                 !.returned = Obj([isValid |-> Bool(validationResult.isValid),
                                                   errors |-> Array(validationResult.errors)])]
  /\ UNCHANGED clock
  /\ UNCHANGED dbFrame

\* sanitizeCompanyRecord(companyRecord)
DbSanitize ==
  /\ dbase.pc = "off"
  /\ \E companyRecord \in ValidateRecords :
       LET out == sanitizeCompanyRecord(companyRecord)
       IN dbase' = [dbase EXCEPT !.pc = "done", !.call = "sanitizeCompanyRecord",
                                 !.given = companyRecord, !.received = out.received,
                                 !.copy = out.value, !.returned = out.value]
  /\ UNCHANGED clock
  /\ UNCHANGED dbFrame

\* updateExistingCompany(companyId, updatedRecord)
DbUpdate ==
  /\ dbase.pc = "off"
  /\ \E updatedRecord \in UpdateRecords :
       LET out == updateExistingCompany(dbase.rows, GetProp(updatedRecord, "id"),
                                        updatedRecord, clock + 1)
       IN dbase' = [dbase EXCEPT !.pc = "done", !.call = "updateExistingCompany",
                                 !.given = updatedRecord, !.received = out.received,
                                 !.copy = out.copy, !.returned = out.value,
                                 !.attempts = out.attempts, !.rows = out.rows]
  /\ clock' = clock + 1
  /\ UNCHANGED dbFrame

\* saveCompanyToDatabase(companyRecord)
DbSave ==
  /\ dbase.pc = "off"
  /\ \E companyRecord \in ValidateRecords :
       LET out == saveCompanyToDatabase(dbase.rows, companyRecord, clock)
       IN dbase' = [dbase EXCEPT !.pc = "done", !.call = "saveCompanyToDatabase",
                                 !.given = companyRecord, !.received = companyRecord,
                                 !.returned = out.value, !.threw = out.threw,
                                 !.invoked = out.invoked,
                                 !.attempts = out.attempts, !.rows = out.rows]
  /\ UNCHANGED clock
  /\ UNCHANGED dbFrame

\* parseAndSaveCompany(docId), up to the call of parseCompanyFromDoc
DbParseAndSave ==
  /\ dbase.pc = "off"
  /\ pc = "idle"
  /\ \E docId \in DbDocIds : run' = FreshRun(docId)
  /\ pc' = "extract"
  /\ runCount' = runCount + 1
  /\ dbase' = [dbase EXCEPT !.pc = "parsing", !.call = "parseAndSaveCompany"]
  /\ UNCHANGED <<variant, config, prev, memo, memoOn, uuidCounter, clock, sheet,
                 lastSave, batch, calendar>>

\* parseAndSaveCompany(docId), from the return of parseCompanyFromDoc
\* (outcome "returned" with parsedData) or its throw (outcome "thrown"):
\* the catch block when it threw, else sanitizeCompanyRecord and
\* saveCompanyToDatabase, and the result object.
parseAndSaveResult(docId, rows, parsedData, san, saveResult) ==
  [ given |-> parsedData, received |-> san.received, copy |-> san.value,
    invoked |-> saveResult.invoked, attempts |-> saveResult.attempts,
    rows |-> saveResult.rows,
    value |-> IF saveResult.threw
              THEN Obj([success |-> Bool(FALSE),
                        operation |-> Str(<<"parse_and_save">>),
                        doc_id |-> Str(<<docId>>),
                        error |-> saveResult.value])
              ELSE Obj([success |-> GetProp(saveResult.value, "success"),
                        operation |-> Str(<<"parse_and_save">>),
                        doc_id |-> Str(<<docId>>),
                        company_name |-> GetProp(san.received, "company_name"),
                        database_result |-> saveResult.value]) ]

parseAndSaveSanitized(docId, rows, parsedData, san, now) ==
  parseAndSaveResult(docId, rows, parsedData, san,
                     saveCompanyToDatabase(rows, san.value, now))

parseAndSaveCompany(docId, outcome, parsedData, rows, now) ==
  IF outcome = "thrown"
  THEN [ given |-> Undefined, received |-> Undefined, copy |-> Undefined,
         invoked |-> <<>>, attempts |-> <<>>, rows |-> rows,
         value |-> Obj([success |-> Bool(FALSE),
                        operation |-> Str(<<"parse_and_save">>),
                        doc_id |-> Str(<<docId>>),
                        error |-> Str(<<"Error">>)]) ]
  ELSE parseAndSaveSanitized(docId, rows, parsedData,
                             sanitizeCompanyRecord(parsedData), now)

DbFinish ==
  /\ dbase.pc = "parsing"
  /\ dbase.call = "parseAndSaveCompany"
  /\ pc \in {"returned", "thrown"}
  /\ LET out == parseAndSaveCompany(run.docId, pc, run.result, dbase.rows, clock)
     IN dbase' = [dbase EXCEPT !.pc = "done", !.given = out.given,
                               !.received = out.received, !.copy = out.copy,
                               !.returned = out.value, !.invoked = out.invoked,
                               !.attempts = out.attempts, !.rows = out.rows]
  /\ UNCHANGED clock
  /\ UNCHANGED dbFrame

(***************************************************************************)
(* The two batch functions.  Their result is the record of the counters    *)
(* and the list of details.                                                *)
(***************************************************************************)
MaxBatchItems == 2

BatchResults(total) ==
  [total |-> total, successful |-> 0, failed |-> 0, details |-> <<>>]

\* if (result.success) successful++ else failed++; details.push(detail)
Tally(results, result, detail) ==
  LET success == TypeOf(GetProp(result, "success")) = "boolean"
                   /\ GetProp(result, "success")[2]
  IN [results EXCEPT !.successful = IF success THEN @ + 1 ELSE @,
                     !.failed = IF success THEN @ ELSE @ + 1,
                     !.details = Append(@, detail)]

\* error: saveResult.error || null
SaveDetail(index, record, saveResult) ==
  Obj([index |-> Num(100 * (index - 1)),
       company_name |-> GetProp(record, "company_name"),
       success |-> GetProp(saveResult, "success"),
       error |-> OrElse(GetProp(saveResult, "error"), Null),
       id |-> OrElse(GetProp(saveResult, "id"), Null)])

\* A faulty variant of the loop: it ends with the first item that fails.
RECURSIVE saveUntilFailure(_, _, _, _, _)
saveUntilFailure(rows, companyRecords, index, results, now) ==
  IF index > Len(companyRecords) THEN [results |-> results, rows |-> rows]
  ELSE LET out == saveCompanyToDatabase(rows, companyRecords[index], now)
           next == Tally(results, out.value,
                         SaveDetail(index, companyRecords[index], out.value))
       IN IF next.failed > results.failed THEN [results |-> next, rows |-> out.rows]
          ELSE saveUntilFailure(out.rows, companyRecords, index + 1, next, now)

batchSaveCompaniesStopOnFailure(rows, companyRecords, now) ==
  saveUntilFailure(rows, companyRecords, 1, BatchResults(Len(companyRecords)), now)

\* companyRecords.forEach((record, index) => ...), from the item `index` on
RECURSIVE saveEach(_, _, _, _, _)
saveEach(rows, companyRecords, index, results, now) ==
  IF index > Len(companyRecords) THEN [results |-> results, rows |-> rows]
  ELSE LET out == saveCompanyToDatabase(rows, companyRecords[index], now)
           caught == Obj([index |-> Num(100 * (index - 1)),
                          company_name |-> GetProp(companyRecords[index], "company_name"),
                          success |-> Bool(FALSE),
                          error |-> Str(<<"Error">>)])
       IN saveEach(out.rows, companyRecords, index + 1,
                   IF out.threw THEN Tally(results, caught, caught)
                   ELSE Tally(results, out.value,
                              SaveDetail(index, companyRecords[index], out.value)),
                   now)

\* batchSaveCompanies(companyRecords)
batchSaveCompanies(rows, companyRecords, now) ==
  saveEach(rows, companyRecords, 1, BatchResults(Len(companyRecords)), now)

\* The record lists and the document lists handed to the batch functions.
BatchRecords ==
  { SoundRecord,
    Obj([SoundRecord[2] EXCEPT !["team_size"] = Num(1250)]),
    Obj([SoundRecord[2] EXCEPT !["company_name"] = Null]) }

\* batchSaveCompanies(companyRecords)
DbBatchSave ==
  /\ dbase.pc = "off"
  /\ \E companyRecords \in SeqsUpTo(BatchRecords, MaxBatchItems) :
       LET out == batchSaveCompanies(dbase.rows, companyRecords, clock)
       IN dbase' = [dbase EXCEPT !.pc = "done", !.call = "batchSaveCompanies",
                                 !.given = companyRecords, !.returned = out.results,
                                 !.rows = out.rows]
  /\ UNCHANGED clock
  /\ UNCHANGED dbFrame

\* batchParseAndSave(docIds), up to the first call of parseAndSaveCompany,
\* or to the return for an empty list.
DbBatchParse ==
  /\ dbase.pc = "off"
  /\ pc = "idle"
  /\ \E docIds \in SeqsUpTo(DbDocIds, MaxBatchItems) :
       /\ dbase' = [dbase EXCEPT !.pc = IF docIds = <<>> THEN "done" ELSE "parsing",
                                 !.call = "batchParseAndSave",
                                 !.given = docIds, !.todo = docIds,
                                 !.returned = BatchResults(Len(docIds))]
       /\ IF docIds = <<>>
          THEN UNCHANGED <<pc, run, runCount, calendar>>
          ELSE /\ run' = FreshRun(Head(docIds))
               /\ pc' = "extract"
               /\ runCount' = runCount + 1
  /\ UNCHANGED <<variant, config, prev, memo, memoOn, uuidCounter, clock, sheet,
                 lastSave, batch, calendar>>

\* batchParseAndSave(docIds): parseAndSaveCompany finishes for the current
\* document, the result is counted and pushed, and the loop goes on to the
\* next document or the function returns.
DbBatchItem ==
  /\ dbase.pc = "parsing"
  /\ dbase.call = "batchParseAndSave"
  /\ pc \in {"returned", "thrown"}
  /\ LET out == parseAndSaveCompany(run.docId, pc, run.result, dbase.rows, clock)
         rest == Tail(dbase.todo)
     IN /\ dbase' = [dbase EXCEPT !.pc = IF rest = <<>> THEN "done" ELSE "parsing",
                                  !.todo = rest,
                                  !.returned = Tally(@, out.value, out.value),
                                  !.rows = out.rows]
        /\ IF rest = <<>>
           THEN /\ pc' = "idle"
                /\ run' = FreshRun("")
                /\ UNCHANGED runCount
           ELSE /\ run' = FreshRun(Head(rest))
                /\ pc' = "extract"
                /\ runCount' = runCount + 1
  /\ UNCHANGED <<variant, config, prev, memo, memoOn, uuidCounter, clock, sheet,
                 lastSave, batch, calendar>>

NextDb ==
  \/ DbValidate
  \/ DbSanitize
  \/ DbUpdate
  \/ DbSave
  \/ DbParseAndSave
  \/ StageExtract
  \/ StageSimple
  \/ StageACV
  \/ StageCustomer
  \/ StageChurn
  \/ StageBurn
  \/ StageValuation
  \/ StageAssemble
  \/ DbFinish
  \/ DbBatchSave
  \/ DbBatchParse
  \/ DbBatchItem

SpecDb == InitDb /\ [][NextDb]_vars

(***************************************************************************)
(* Properties of the database write utility (SpecDb).                      *)
(***************************************************************************)
Finished(call) == dbase.pc = "done" /\ dbase.call = call

\* parseAndSaveCompany got a record from parseCompanyFromDoc and finished.
WorkflowFinished == Finished("parseAndSaveCompany") /\ pc = "returned"

\* C14 (validation failures are surfaced, not repaired): when the record
\* parseCompanyFromDoc returned to parseAndSaveCompany fails a check of
\* validateCompanyRecord, the record handed on to the database still fails
\* it, the call returns success = false with the validation errors, and no
\* insert or update was attempted.
C14_SurfacedNotRepaired ==
  (WorkflowFinished /\ ~validateCompanyRecord(dbase.given).isValid) =>
     /\ ~validateCompanyRecord(dbase.copy).isValid
     /\ GetProp(dbase.returned, "success") = Bool(FALSE)
     /\ GetProp(GetProp(dbase.returned, "database_result"), "error")
          = Str(<<"Validation failed">>)
     /\ dbase.attempts = <<>>

\* C15 (numeric fields): a record validateCompanyRecord reports as valid
\* has in each numeric field nothing (null, or no value) or a finite
\* number; a string, NaN or an infinity there makes the record invalid.
C15_ValidNumericFinite ==
  (Finished("validateCompanyRecord")
     /\ GetProp(dbase.returned, "isValid") = Bool(TRUE)) =>
     \A field \in Range(ValidatedNumericFields) :
        \/ IsNullish(GetProp(dbase.given, field))
        \/ TypeOf(GetProp(dbase.given, field)) = "number"

\* C16 (percentage range): a record validateCompanyRecord reports as valid
\* has in gross_margin, saas_recurring_percent, logo_churn_annual and nrr
\* nothing (null, or no value) or a value from 0 to 5 inclusive.
C16_ValidPercentRange ==
  (Finished("validateCompanyRecord")
     /\ GetProp(dbase.returned, "isValid") = Bool(TRUE)) =>
     \A field \in {"gross_margin", "saas_recurring_percent", "logo_churn_annual", "nrr"} :
        LET value == GetProp(dbase.given, field)
        IN \/ IsNullish(value)
           \/ ~LessThan(value, Num(0)) /\ ~LessThan(Num(500), value) /\ ~IsNaN(value)

\* C17 (no mutation after assembly): when sanitizeCompanyRecord or
\* updateExistingCompany has run, on its own or inside parseAndSaveCompany,
\* the object it was handed is as it was before the call, and the copy it
\* made has the id, doc_url and date_created of that object.
C17_NoMutation ==
  (dbase.pc = "done" /\ dbase.copy # Undefined) =>
     /\ dbase.call \in {"sanitizeCompanyRecord", "updateExistingCompany",
                        "parseAndSaveCompany"}
     /\ dbase.received = dbase.given
     /\ \A k \in {"id", "doc_url", "date_created"} :
          GetProp(dbase.copy, k) = GetProp(dbase.given, k)

\* The case of C17: parseAndSaveCompany sanitized an assembled record, and
\* the copy differs from the record (a head count was rounded).
C17_Witness ==
  /\ WorkflowFinished
  /\ dbase.given = run.result
  /\ GetProp(dbase.given, "team_size") = Num(1250)
  /\ GetProp(dbase.copy, "team_size") = Num(1300)

\* C20 (complete workflow): when parseCompanyFromDoc returned a record and
\* the sanitized record passes validateCompanyRecord, parseAndSaveCompany
\* returns success = true and the record is in the database.
C20_CompleteWorkflow ==
  (WorkflowFinished /\ validateCompanyRecord(dbase.copy).isValid) =>
     /\ GetProp(dbase.returned, "success") = Bool(TRUE)
     /\ dbase.rows # <<>>

(***************************************************************************)
(* What a note states, for the properties of the classifier stages.        *)
(***************************************************************************)
\* The rates and the amounts that occur in the notes of this model: a rate
\* in hundredths, an amount in hundredths of a dollar.
RateLiterals == ("2%" :> 2) @@ ("10%" :> 10)
AmountLiterals == ("250k" :> 25000000) @@ ("300" :> 30000) @@ ("5M" :> 500000000)

\* The value of the field `label` in the note of a document.
Stated(docId, label) == MatchField(DocumentText(docId)[2], label)

\* The note states a churn rate for the period: a rate, then the period.
StatesChurn(docId, period) ==
  LET t == Stated(docId, "Logo Churn Annual")
  IN Len(t) = 3 /\ t[1] \in DOMAIN RateLiterals /\ t[3] = period

StatedRate(docId) == RateLiterals[Stated(docId, "Logo Churn Annual")[1]]

\* (1 - m)^n in ten-thousandths, for m in hundredths
RECURSIVE Retained(_, _)
Retained(m, n) == IF n = 0 THEN 10000 ELSE (Retained(m, n - 1) * (100 - m)) \div 100

\* 1 - (1 - m)^12, to the nearest hundredth
Compounded(m) == Num(((10000 - Retained(m, 12)) + 50) \div 100)

\* The amounts a field of the note states.
StatedAmounts(docId, label) ==
  SelectSeq(Stated(docId, label), LAMBDA t : t \in DOMAIN AmountLiterals)

(***************************************************************************)
(* Properties of the classifier stages (SpecPipe).                         *)
(***************************************************************************)
\* C18 (churn annualisation): when the note states a monthly churn rate m,
\* logo_churn_annual of the record parseCompanyFromDoc returns is
\* 1 - (1 - m)^12 and not 12 * m; when it states an annual rate, it is that
\* rate.
C18_ChurnCompounded ==
  (pc = "returned" /\ DocumentAvailable(run.docId)) =>
     /\ StatesChurn(run.docId, "monthly") =>
          /\ GetProp(run.result, "logo_churn_annual") = Compounded(StatedRate(run.docId))
          /\ GetProp(run.result, "logo_churn_annual") # Num(12 * StatedRate(run.docId))
     /\ StatesChurn(run.docId, "annual") =>
          GetProp(run.result, "logo_churn_annual") = Num(StatedRate(run.docId))

\* C19 (segmentation output contract), in its first condition: a record
\* parseCompanyFromDoc returns has a secondary value (acv_2,
\* customer_count_2) only when the note states at least two amounts for
\* the field, and then the primary is the larger of the two values.
C19_SecondaryOnlyWhenComplex ==
  (pc = "returned" /\ DocumentAvailable(run.docId)) =>
     /\ GetProp(run.result, "acv_2") # Null =>
          /\ Len(StatedAmounts(run.docId, "ACV")) >= 2
          /\ LessThan(GetProp(run.result, "acv_2"), GetProp(run.result, "acv"))
     /\ GetProp(run.result, "customer_count_2") # Null =>
          /\ Len(StatedAmounts(run.docId, "# of Customers")) >= 2

(***************************************************************************)
(* More properties of the database write utility (SpecDb).                 *)
(***************************************************************************)
\* C21 (saveCompanyToDatabase never throws): a call of saveCompanyToDatabase
\* on a record returns; a record that fails validation gives success =
\* false with "Validation failed" and none of findExistingCompany,
\* insertNewCompany, updateExistingCompany invoked; an insert or update
\* that wrote nothing because it raised an error gives success = false
\* with that error.
C21_SaveNeverThrows ==
  Finished("saveCompanyToDatabase") =>
     /\ ~dbase.threw
     /\ IsObject(dbase.returned)
     /\ ~validateCompanyRecord(dbase.given).isValid =>
          /\ GetProp(dbase.returned, "success") = Bool(FALSE)
          /\ GetProp(dbase.returned, "error") = Str(<<"Validation failed">>)
          /\ dbase.invoked = <<>>
          /\ dbase.attempts = <<>>
     /\ (dbase.attempts # <<>> /\ dbase.rows = <<>>) =>
          /\ GetProp(dbase.returned, "success") = Bool(FALSE)
          /\ GetProp(dbase.returned, "error") = NotConfigured

\* The case of C21: the record was valid, insertNewCompany was invoked and
\* raised its error, and the call returned a result object.
C21_Witness ==
  /\ Finished("saveCompanyToDatabase")
  /\ validateCompanyRecord(dbase.given).isValid
  /\ dbase.invoked = <<"findExistingCompany", "insertNewCompany">>
  /\ GetProp(dbase.returned, "success") = Bool(FALSE)

(***************************************************************************)
(* More properties of saveCompanyRecord (SpecSheet).                       *)
(***************************************************************************)
\* A call of saveCompanyRecord has been made with the spreadsheet configured.
Saved == lastSave.branch \notin {"none", "no_spreadsheet_id"}

\* C22 (first save into an empty sheet): after a call of saveCompanyRecord
\* on a sheet without rows, the call has not thrown, the first row holds
\* the keys of the record, and the second row holds the record.
C22_FirstSaveStoresRecord ==
  (Saved /\ lastSave.before = <<>>) =>
     /\ ~lastSave.threw
     /\ Len(sheet) = 2
     /\ sheet[1] = ObjectKeys(lastSave.record)
     /\ sheet[2] = RowFor(sheet[1], lastSave.record)

(***************************************************************************)
(* The batch driver run again: processAllCompaniesInMasterFolder is        *)
(* started a second time on the same folder, with the sheet as the run     *)
(* before left it.                                                         *)
(***************************************************************************)
MaxBatchRuns == 2

RerunListings ==
  {<<<<d>>>> : d \in BatchDocs} \cup {<<<<"doc-full", "doc-gone">>>>}

InitRerun ==
  /\ variant \in {"fields", "fulltext"}
  /\ config = {"SPREADSHEET_ID", "MASTER_FOLDER_ID"}
  /\ pc = "idle"
  /\ run = FreshRun("")
  /\ prev = NoRun
  /\ runCount = 0
  /\ memo = <<>>
  /\ memoOn = FALSE
  /\ uuidCounter = 0
  /\ clock = 0
  /\ sheet \in {<<>>, <<HeaderRow(<<"id", "company_name">>)>>}
  /\ lastSave = NoSave
  /\ calendar = NoCalendar
  /\ \E l \in RerunListings : batch = [NoBatch EXCEPT !.listing = l]
  /\ dbase = NoDb

\* The next execution of the script.
BatchAgain ==
  /\ batch.pc = "done"
  /\ batch.runs < MaxBatchRuns
  /\ batch' = [batch EXCEPT !.pc = "off", !.visited = <<>>, !.skipped = 0]
  /\ UNCHANGED <<pc, run, uuidCounter, clock, sheet, lastSave, calendar>>
  /\ UNCHANGED batchFrame

NextRerun ==
  \/ BatchStart
  \/ BatchNextFolder
  \/ BatchNextFile
  \/ StageExtract
  \/ StageSimple
  \/ StageACV
  \/ StageCustomer
  \/ StageChurn
  \/ StageBurn
  \/ StageValuation
  \/ StageAssemble
  \/ BatchCatch
  \/ BatchSave
  \/ BatchSkip
  \/ BatchAgain

SpecRerun == InitRerun /\ [][NextRerun]_vars

(***************************************************************************)
(* Properties of repeated batch runs (SpecRerun).                          *)
(***************************************************************************)
\* The step saves the record of the current document successfully.
SavedStep ==
  batch.pc = "parsing" /\ batch'.processedCount = batch.processedCount + 1

\* C23 (fresh ids, one new row per save): no two data rows of the sheet
\* share an id, and every step of the batch driver that saves a record
\* successfully leaves every existing row as it was and adds exactly one
\* row, the record's; so a document processed in two runs has two rows.
C23_SaveAddsRow ==
  /\ [](HasIdHeader(sheet) => NoSharedId(sheet))
  /\ [][ SavedStep =>
           /\ Len(sheet') = Len(sheet) + 1
           /\ \A r \in 1..Len(sheet) : sheet'[r] = sheet[r]
           /\ sheet'[Len(sheet')] = RowFor(sheet[1], run.result) ]_vars

\* The case of C23: the second run over a folder with one document has
\* finished, and the sheet holds two rows for the document, under
\* different ids.
C23_Witness ==
  /\ batch.pc = "done" /\ batch.runs = 2
  /\ batch.listing = <<<<"doc-full">>>>
  /\ batch.processedCount = 1
  /\ Len(sheet) = 3
  /\ sheet[2][2] = sheet[3][2]
  /\ sheet[2][1] # sheet[3][1]

\* C24 (column alignment): after a call of saveCompanyRecord on a sheet
\* with a header row, the call has not thrown, the header row is as it
\* was, and the sheet differs from the one before in at most one row below
\* the header, which has one cell per header column: the record's value
\* for the header, empty (null was written) where the record has no value
\* for it.  No other cell holds anything of the record.
C24_ColumnAlignment ==
  (Saved /\ lastSave.before # <<>>) =>
     LET before == lastSave.before
         row == RowFor(before[1], lastSave.record)
     IN /\ ~lastSave.threw
        /\ sheet[1] = before[1]
        /\ Len(row) = Len(before[1])
        /\ \E w \in 2..(Len(before) + 1) : sheet = SetRow(before, w, row)

\* The case of C24: a record with an id and a name was saved under the
\* single header company_name: the row written holds the name only.
C24_Witness ==
  /\ lastSave.branch = "append_no_id"
  /\ lastSave.before = <<HeaderRow(<<"company_name">>)>>
  /\ Keys(lastSave.record) = {"id", "company_name"}
  /\ sheet = <<HeaderRow(<<"company_name">>), <<Str(<<"Acme">>)>>>>

(***************************************************************************)
(* Properties of the field extraction (SpecPipe, field version).           *)
(***************************************************************************)
\* What stands after the first occurrence of the label on the line of the
\* label, trimmed; nothing when the label does not occur.
SameLineValue(text, label) ==
  IF LabelPositions(text, label) = {} THEN <<>>
  ELSE LET i == CHOOSE h \in LabelPositions(text, label) :
                  \A g \in LabelPositions(text, label) : h <= g
       IN Trim(SubSeq(text, i + 1, LineEnd(text, i + 1) - 1))

\* C25 (values come from the label's line): the object
\* extractRawFieldsFromDoc returns has an entry for every field label, and
\* the entry of a label is the text after the label on the label's own
\* line: the empty string for a label that is absent or has nothing after
\* it on its line.
C25_SameLineValues ==
  (variant = "fields" /\ IsObject(run.source)) =>
     /\ Keys(run.source) = FieldLabels
     /\ \A label \in FieldLabels :
          run.source[2][label] = Str(SameLineValue(DocumentText(run.docId)[2], label))

(***************************************************************************)
(* More properties of the classifier stages (SpecPipe).                    *)
(***************************************************************************)
\* The three single-field stages: position, schema name, local, empty result.
SingleFieldStages ==
  { <<"churn", "churn_temporal_conversion", "churnData",
      Obj([logo_churn_annual |-> Null])>>,
    <<"burn", "monthly_burn_normalization", "burnData",
      Obj([monthly_burn |-> Null])>>,
    <<"valuation", "valuation_extraction", "valuationData",
      Obj([last_round_valuation |-> Null])>> }

\* C26 (single-field short-circuit): a churn, monthly-burn or valuation
\* stage that was handed an empty or white-space-only text returned its
\* field as null, did not invoke the classifier, and did not fail; the
\* valuation text of two empty funding notes is the space that joins them,
\* and counts as such a text.
C26_SingleFieldShortCircuit ==
  /\ \A st \in SingleFieldStages :
       (Acted(st[1]) /\ IsBlankText(StageText(st[2]))) =>
         /\ run[st[3]] = st[4]
         /\ ~Invoked(st[2])
         /\ ~ThrewAt(st[1])
  /\ (variant = "fields" /\ IsObject(run.source)
        /\ Raw("Active round / fundraise Notes") = EmptyString
        /\ Raw("Other Funding Notes") = EmptyString) =>
       /\ StageText("valuation_extraction") = Str(<<"SP">>)
       /\ IsBlankText(StageText("valuation_extraction"))

\* The case of C26: the valuation stage ran on the joined text of two empty
\* funding notes, after the churn stage ran on an empty text.
C26_Witness ==
  /\ variant = "fields"
  /\ Acted("churn") /\ Acted("valuation")
  /\ StageText("churn_temporal_conversion") = EmptyString
  /\ StageText("valuation_extraction") = Str(<<"SP">>)
  /\ run.valuationData = Obj([last_round_valuation |-> Null])
  /\ pc = "assemble"

(***************************************************************************)
(* Properties of the validation and the sanitization (SpecDb).             *)
(***************************************************************************)
\* The errors validateCompanyRecord returned that concern a segment pair.
SegmentErrors ==
  SelectSeq(GetProp(dbase.returned, "errors")[2], LAMBDA e : e[1] = "segment")

\* C27 (segment consistency): validateCompanyRecord reports a record as
\* invalid when acv_2 has a value while acv is null or absent, and when
\* customer_count_2 has a value while customer_count is null or absent;
\* it reports no segment error for a record whose secondary fields are
\* null or absent.
C27_SegmentConsistency ==
  Finished("validateCompanyRecord") =>
     /\ \A pair \in {<<"acv", "acv_2">>, <<"customer_count", "customer_count_2">>} :
          (NonNull(GetProp(dbase.given, pair[2])) /\ IsNullish(GetProp(dbase.given, pair[1])))
             => GetProp(dbase.returned, "isValid") = Bool(FALSE)
     /\ (IsNullish(GetProp(dbase.given, "acv_2"))
           /\ IsNullish(GetProp(dbase.given, "customer_count_2")))
          => SegmentErrors = <<>>

\* A batch function has returned.
BatchFinished ==
  dbase.pc = "done" /\ dbase.call \in {"batchSaveCompanies", "batchParseAndSave"}

\* C28 (batch counts): when batchSaveCompanies or batchParseAndSave has
\* returned, successful + failed = total = the number of details = the
\* number of items handed in, and the i-th detail is that of the i-th item;
\* while batchParseAndSave runs, the details pushed and the documents still
\* to do add up to the list handed in.
C28_BatchCounts ==
  /\ BatchFinished =>
       LET r == dbase.returned IN
       /\ r.successful + r.failed = r.total
       /\ r.total = Len(r.details)
       /\ r.total = Len(dbase.given)
       /\ \A i \in 1..Len(r.details) :
            IF dbase.call = "batchSaveCompanies"
            THEN /\ GetProp(r.details[i], "index") = Num(100 * (i - 1))
                 /\ GetProp(r.details[i], "company_name")
                      = GetProp(dbase.given[i], "company_name")
            ELSE GetProp(r.details[i], "doc_id") = Str(<<dbase.given[i]>>)
  /\ (dbase.call = "batchParseAndSave" /\ dbase.pc = "parsing") =>
       /\ dbase.todo # <<>>
       /\ run.docId = Head(dbase.todo)
       /\ Len(dbase.returned.details) + Len(dbase.todo) = Len(dbase.given)
       /\ \A i \in 1..Len(dbase.todo) :
            dbase.todo[i] = dbase.given[Len(dbase.returned.details) + i]

\* The case of C28: batchParseAndSave went through two documents, the
\* first of which could not be opened.
C28_Witness ==
  /\ BatchFinished
  /\ dbase.given = <<"doc-gone", "doc-full">>
  /\ dbase.returned.failed = 2
  /\ dbase.returned.total = 2
  /\ dbase.attempts = <<>> /\ Len(dbase.returned.details) = 2
  /\ IsObject(GetProp(dbase.returned.details[2], "database_result"))

\* C29 (sanitization is idempotent and null-preserving): when
\* sanitizeCompanyRecord has returned, sanitizing its result again gives
\* the same record, every field that was null in the record it was handed
\* is null in the result, and every string field that was the empty string
\* or white space only is null in the result.
C29_SanitizeIdempotent ==
  Finished("sanitizeCompanyRecord") =>
     /\ sanitizeCompanyRecord(dbase.returned).value = dbase.returned
     /\ \A k \in Keys(dbase.given) :
          GetProp(dbase.given, k) = Null => GetProp(dbase.returned, k) = Null
     /\ \A k \in Keys(dbase.given) \cap SanitizedStringFields :
          LET v == GetProp(dbase.given, k)
          IN (TypeOf(v) = "string" /\ Trim(v[2]) = <<>>) =>
                GetProp(dbase.returned, k) = Null

(***************************************************************************)
(* The calendar scan (src/zeroclick/find-intro-calls.js).                  *)
(*                                                                         *)
(* processTodayCalendarEvents reads the events of the day, builds a        *)
(* summary of each, asks OpenAIClassifyIntroCall about it, and returns the *)
(* summaries that were classified as intro calls.  OPENAI_API_KEY is a     *)
(* global of the script project, declared as in parse-company.js line 16.  *)
(***************************************************************************)
MaxEvents == 2

\* What calendar.getEvents(start, end) can hold: the title, the
\* description, the guests and the start time of an event.
CalendarEvents ==
  { [title |-> Str(<<"Intro", "SP", "Call">>), description |-> EmptyString,
     guests |-> <<"james@scopvc.com", "founder@acme.com">>, startTime |-> "09:00"],
    [title |-> Str(<<"Team", "SP", "Pitch">>), description |-> Str(<<"pitch">>),
     guests |-> <<"james@scopvc.com", "kevin@scopvc.com", "founder@acme.com">>,
     startTime |-> "14:30"],
    [title |-> Str(<<"Lunch">>), description |-> EmptyString,
     guests |-> <<>>, startTime |-> "12:00"] }

\* event.getGuestList().map(g => g.getEmail()).join(', ')
RECURSIVE JoinEmails(_)
JoinEmails(guests) ==
  IF guests = <<>> THEN <<>>
  ELSE IF Len(guests) = 1 THEN <<guests[1]>>
  ELSE <<guests[1], ",", "SP">> \o JoinEmails(Tail(guests))

\* event.getStartTime().toLocaleString()
ToLocaleString(startTime) == Str(<<"11/3/2026,", "SP", startTime>>)

\* const summary = { title, time, description, attendees }
Summary(event) ==
  Obj([title |-> event.title,
       time |-> ToLocaleString(event.startTime),
       description |-> event.description,
       attendees |-> Str(JoinEmails(event.guests))])

\* What UrlFetchApp.fetch can bring back for one event: it throws, the body
\* is not JSON, the body is JSON without `choices` (an error object), or
\* the body has choices[0].message.content, a string or null.
IntroContents ==
  { Str(<<"Yes">>), Str(<<"yes">>), Str(<<"YES">>), Str(<<"SP", "Yes", "NL">>),
    Str(<<"No">>), Str(<<"Yes.">>), Str(<<"Yes", "SP", "indeed">>), EmptyString, Null }

IntroResponses ==
  { [kind |-> k, content |-> Undefined] : k \in {"fetch_throws", "not_json", "no_choices"} }
    \cup { [kind |-> "content", content |-> c] : c \in IntroContents }

\* String.prototype.toLowerCase on the token sequence
LowerCaseTokens == ("Yes" :> "yes") @@ ("YES" :> "yes") @@ ("No" :> "no")
                     @@ ("Yes." :> "yes.")

ToLowerCase(s) ==
  [i \in 1..Len(s) |-> IF s[i] \in DOMAIN LowerCaseTokens THEN LowerCaseTokens[s[i]] ELSE s[i]]

\* A faulty variant: the answer is compared as it came, without
\* .trim().toLowerCase().
OpenAIClassifyIntroCallAsIs(summary, response) ==
  /\ response.kind = "content"
  /\ TypeOf(response.content) = "string"
  /\ response.content[2] = <<"yes">>

\* OpenAIClassifyIntroCall(summary), given what the request brings back:
\* every throw inside try ends in `return false`.
OpenAIClassifyIntroCall(summary, response) ==
  /\ response.kind = "content"
  /\ TypeOf(response.content) = "string"
  /\ ToLowerCase(Trim(response.content[2])) = <<"yes">>

\* Lines 17-28: the events of the day are read.
CalendarStart ==
  /\ calendar.pc = "off"
  /\ \E events \in SeqsUpTo(CalendarEvents, MaxEvents) :
       calendar' = [calendar EXCEPT !.pc = "scanning", !.events = events]
  /\ UNCHANGED <<variant, config, pc, run, prev, runCount, memo, memoOn,
                 uuidCounter, clock, sheet, lastSave, batch, dbase>>

\* Lines 31-55: the callback of events.forEach for the next event.
CalendarEvent ==
  /\ calendar.pc = "scanning"
  /\ calendar.next <= Len(calendar.events)
  /\ \E response \in IntroResponses :
       LET summary == Summary(calendar.events[calendar.next])
           isIntroCall == OpenAIClassifyIntroCall(summary, response)
       IN calendar' = [calendar EXCEPT
                         !.next = @ + 1,
                         !.answers = Append(@, response),
                         !.introCallSummaries =
                            IF isIntroCall THEN Append(@, summary) ELSE @]
  /\ UNCHANGED <<variant, config, pc, run, prev, runCount, memo, memoOn,
                 uuidCounter, clock, sheet, lastSave, batch, dbase>>

\* Lines 57-58: return introCallSummaries
CalendarReturn ==
  /\ calendar.pc = "scanning"
  /\ calendar.next > Len(calendar.events)
  /\ calendar' = [calendar EXCEPT !.pc = "done",
                                  !.returned = calendar.introCallSummaries]
  /\ UNCHANGED <<variant, config, pc, run, prev, runCount, memo, memoOn,
                 uuidCounter, clock, sheet, lastSave, batch, dbase>>

InitCalendar ==
  /\ variant = "fulltext"
  /\ config = {"OPENAI_API_KEY"}
  /\ pc = "idle"
  /\ run = FreshRun("")
  /\ prev = NoRun
  /\ runCount = 0
  /\ memo = <<>>
  /\ memoOn = FALSE
  /\ uuidCounter = 0
  /\ clock = 0
  /\ sheet = <<>>
  /\ lastSave = NoSave
  /\ batch = NoBatch
  /\ dbase = NoDb
  /\ calendar = NoCalendar

NextCalendar ==
  \/ CalendarStart
  \/ CalendarEvent
  \/ CalendarReturn

SpecCalendar == InitCalendar /\ [][NextCalendar]_vars

\* The answer is the word yes, in any case, with nothing but white space
\* around it.
AnsweredYes(response) ==
  /\ response.kind = "content"
  /\ TypeOf(response.content) = "string"
  /\ \E i \in 1..Len(response.content[2]) :
       /\ response.content[2][i] \in {"yes", "Yes", "YES"}
       /\ \A j \in 1..Len(response.content[2]) \ {i} : IsSpace(response.content[2][j])

\* The positions, in calendar order, of the events answered with yes.
YesPositions ==
  SelectSeq([i \in 1..Len(calendar.answers) |-> i],
            LAMBDA i : AnsweredYes(calendar.answers[i]))

====
